---- MODULE Spec2Model ----
(***************************************************************************)
(* The custodial ledger and payment orchestration of the puncture daemon:  *)
(* the client RPC handlers (puncture-daemon/src/client), the ledger        *)
(* queries (puncture-daemon/src/db.rs, client/db.rs), the operator's       *)
(* invite and recovery commands (cli/rpc.rs) and the reactor that consumes *)
(* the Lightning node's events (main.rs).                                  *)
(*                                                                         *)
(* Every handler runs on its own tokio task with its own pooled SQLite     *)
(* connection (puncture-core/src/db.rs, pool of 100), so handlers of       *)
(* different connections interleave between their SQL statements.  A       *)
(* handler is therefore a short sequence of atomic steps, one per group of *)
(* statements between which another task may run.                          *)
(***************************************************************************)
EXTENDS Integers, Sequences, FiniteSets, TLC

(***************************************************************************)
(* Bounds of the model.                                                    *)
(***************************************************************************)
Users == {"a", "b"}            \* transport public keys
Tasks == {"t1", "t2"}          \* request handlers that may run concurrently
InviteIds == {"i1", "i2"}      \* invite ids a client can name
NewInviteIds == {"i1"}         \* invite ids the operator's commands draw
RecoveryIds == {"r1"}          \* recovery ids
ExtHashes == {101}             \* payment hashes of invoices minted elsewhere
ExtOffers == {201}             \* offer ids of offers minted elsewhere
ReqAmounts == {999, 1000, 20000, 100000001}  \* amount_msat a client may ask for
PayAmounts == {20000}          \* amount_msat an outside payer sends to an offer
SendAmounts == {1000}          \* amount_msat of the sends of the ledger
InvoiceAmounts == {1000}       \* amount_msat of the invoices of the ledger
Receivers == {"b"}             \* who asks for invoices and offers in the ledger
Senders == {"a"}               \* who sends in the ledger
MaxIds == 4                    \* ids the daemon and the node draw (32 random bytes each)
MaxTime == 2                   \* clock ticks
MaxQueue == 1                  \* node events not yet handled
UserLimits == {1, 2}           \* user_limit the operator may give an invite
PaidFees == {<<>>, <<500>>}    \* fee_paid_msat the node reports, if any
FeeTasks == {"t1"}             \* the connection whose sends pay fees
FeeAmounts == {50000, 100000}  \* amount_msat of the sends whose fees are checked
BoundAmounts == {999, 1000, 100000000, 100000001}  \* amount_msat at and next to the bounds
Bytes == {0, 10, 171, 255}     \* byte values of code ids and node ids
IdLen == 2                     \* bytes of a code id (16 in the source)
NodeIdLen == 1                 \* bytes of a node id (32 in the source)
Conns == {"c1", "c2", "c3"}    \* connections a client may open

(***************************************************************************)
(* Configuration (struct Args).  fee_ppm, base_fee_msat, min_amount_sats   *)
(* and max_amount_sats have their defaults.  max_pending_payments_per_user *)
(* is set to 1 instead of its default 10, and invoice_expiry_secs to one   *)
(* day; the clock ticks once a day.  internal_fee_msat is the fee the send *)
(* handlers pass to create_internal_transfer.                              *)
(***************************************************************************)
fee_ppm == 5000
base_fee_msat == 10000
min_amount_sats == 1
max_amount_sats == 100000
max_pending_payments_per_user == 1
invoice_expiry_ticks == 1
day_ticks == 1
internal_fee_msat == 1000

(***************************************************************************)
(* Sizes of the session layer.  max_connections is the cap of              *)
(* handle_connection_inner (10 in the source) and bus_capacity the         *)
(* capacity main gives the event bus (1000 in the source), both scaled     *)
(* down.                                                                   *)
(***************************************************************************)
max_connections == 2
bus_capacity == 2

\* The number of stored payments a reconnecting client is to be sent at
\* most, 50 in the specification of the session layer.
replay_limit == 2

VARIABLES
    now,        \* unix_time(), in ticks
    user,       \* table user:     rows [user_pk, invite_id, created_at]
    invite,     \* table invite:   rows [id, user_limit, expires_at]
    recovery,   \* table recovery: rows [id, user_pk, expires_at]
    invoice,    \* table invoice:  rows [id, user_pk, amount_msat, expires_at]
    offer,      \* table offer:    rows [id, user_pk, created_at]
    receive,    \* table receive:  rows [id, user_pk, amount_msat, created_at]
    send,       \* table send:     rows [id, user_pk, amount_msat, fee_msat, status, created_at]
    nextId,     \* the next unused 32-byte id
    task,       \* per handler task: its position and locals
    nodeOut,    \* the node's outbound payments: rows [id, status]
    nodeIn,     \* the node's inbound payments: rows [id, kind, ref, amount_msat]
    ldkEvents,  \* the node's event queue, head first
    reactor,    \* position of process_ldk_events: "next", "processed", "dead"
    last,       \* what the latest step did: handler, outcome, events published
    session,    \* per connection: position of its task, event stream, events forwarded
    semaphore,  \* per node id: the counter of admitted connections
    ct,         \* the process-wide cancellation token and the progress of shutdown
    codec       \* a PunctureCode, its encoding and what decoding gave

vars == <<now, user, invite, recovery, invoice, offer, receive, send, nextId,
          task, nodeOut, nodeIn, ldkEvents, reactor, last, session, semaphore,
          ct, codec>>

tables == <<user, invite, recovery, invoice, offer, receive, send>>
nodeVars == <<nodeOut, nodeIn, ldkEvents>>

(***************************************************************************)
(* Rows and tables.  A table is the set of its rows; the primary key is    *)
(* the field id (user_pk for table user).                                  *)
(***************************************************************************)
HasId(table, id) == \E r \in table : r.id = id

Row(table, id) == CHOOSE r \in table : r.id = id

\* .into_iter().sum() over the amount_msat of the rows
RECURSIVE SumAmounts(_)
SumAmounts(rows) ==
    IF rows = {} THEN 0
    ELSE LET r == CHOOSE x \in rows : TRUE
         IN r.amount_msat + SumAmounts(rows \ {r})

\* .map(|(amount, fee)| amount + fee).sum() over the rows
RECURSIVE SumDebits(_)
SumDebits(rows) ==
    IF rows = {} THEN 0
    ELSE LET r == CHOOSE x \in rows : TRUE
         IN (r.amount_msat + r.fee_msat) + SumDebits(rows \ {r})

\* diesel::insert_into: the statement fails when the primary key exists.
InsertFails(table, row) == HasId(table, row.id)

InsertInto(table, row) == table \cup {row}

\* diesel::replace_into: a row with the same primary key is replaced.
ReplaceInto(table, row) == {r \in table : r.id # row.id} \cup {row}

\* db::user_exists
user_exists(user_pk) == \E r \in user : r.user_pk = user_pk

\* db::count_invite_users
count_invite_users(invite_id) == Cardinality({r \in user : r.invite_id = invite_id})

\* db::count_pending_sends
count_pending_sends(user_pk) ==
    Cardinality({r \in send : r.user_pk = user_pk /\ r.status = "pending"})

count_pending_invoices_through_expiry(user_pk) ==
    Cardinality({r \in invoice : /\ r.user_pk = user_pk
                                 /\ r.expires_at >= now
                                 /\ ~HasId(receive, r.id)})

\* db::count_pending_invoices: the user's invoices that have not expired and
\* have no receive row with the invoice's id.
count_pending_invoices(user_pk) ==
    Cardinality({r \in invoice : /\ r.user_pk = user_pk
                                 /\ r.expires_at > now
                                 /\ ~HasId(receive, r.id)})

\* The two sums of db::user_balance, over the tables given.
receive_sum(rcv, user_pk) == SumAmounts({r \in rcv : r.user_pk = user_pk})

send_sum(snd, user_pk) ==
    SumDebits({r \in snd : r.user_pk = user_pk /\ r.status # "failed"})

\* db::user_balance is (receive_sum as u64).checked_sub(send_sum as u64).unwrap():
\* it panics when the sends exceed the receives.
BalancePanics(rcv, snd, user_pk) == send_sum(snd, user_pk) > receive_sum(rcv, user_pk)

user_balance(rcv, snd, user_pk) == receive_sum(rcv, user_pk) - send_sum(snd, user_pk)

\* receive_sum - send_sum as an integer: what the ledger says the user owns.
LedgerBalance(user_pk) == receive_sum(receive, user_pk) - send_sum(send, user_pk)

(***************************************************************************)
(* Events on the event bus, and the summary of a step.                     *)
(***************************************************************************)
BalanceEvent(user_pk, amount_msat) ==
    [user_pk |-> user_pk, type |-> "Balance", amount_msat |-> amount_msat]

\* IntoPayment for ReceiveRecord
ReceivePayment(r, is_live) ==
    [user_pk |-> r.user_pk, type |-> "Payment", id |-> r.id, payment_type |-> "receive",
     is_live |-> is_live, amount_msat |-> r.amount_msat, fee_msat |-> 0,
     status |-> "successful", created_at |-> r.created_at]

\* IntoPayment for SendRecord
SendPayment(r, is_live) ==
    [user_pk |-> r.user_pk, type |-> "Payment", id |-> r.id, payment_type |-> "send",
     is_live |-> is_live, amount_msat |-> r.amount_msat, fee_msat |-> r.fee_msat,
     status |-> r.status, created_at |-> r.created_at]

UpdateEvent(user_pk, id, status) ==
    [user_pk |-> user_pk, type |-> "Update", id |-> id, status |-> status]

Step(op, user_pk, result, events) ==
    [op |-> op, user_pk |-> user_pk, result |-> result, value |-> 0, events |-> events]

IdleTask ==
    [pc |-> "idle", op |-> "none", user_pk |-> "none", code |-> "none",
     peer |-> "none", amount_msat |-> 0, fee_msat |-> 0, target |-> 0,
     payment_id |-> 0]

Idle(t) == task[t].pc = "idle"

(***************************************************************************)
(* The event bus (events.rs): a tokio broadcast channel.  Every receiver   *)
(* sees every message sent after it subscribed; a receiver that falls more *)
(* than the capacity behind loses its oldest messages and is told so by    *)
(* its next recv.  A session's receiver lives from subscribe_to_events     *)
(* until drive_connection returns or the task dies.                        *)
(***************************************************************************)
\* A session holds what its stream will still yield (prefix, then queue)
\* and, for the properties, what events() built (replay), what the bus has
\* sent since the session subscribed (published) and what the session has
\* written to the client (out).
ClosedSession ==
    [pc |-> "closed", user_pk |-> "none", balance_msat |-> 0, prefix |-> <<>>,
     queue |-> <<>>, lagged |-> FALSE, out |-> <<>>, replay |-> <<>>,
     published |-> <<>>]

Subscribed(c) == session[c].pc \in {"subscribed", "balance_read", "driving", "handling"}

\* broadcast::Sender::send as one receiver sees it.
Enqueue(s, events) ==
    LET q == s.queue \o events
        r == [s EXCEPT !.published = @ \o events]
    IN IF Len(q) > bus_capacity
       THEN [r EXCEPT !.queue = SubSeq(q, Len(q) - bus_capacity + 1, Len(q)),
                      !.lagged = TRUE]
       ELSE [r EXCEPT !.queue = q]

\* The events a step publishes reach every receiver; the step touches
\* nothing else of the session layer.
EventBus_send ==
    /\ session' = [c \in Conns |-> IF Subscribed(c)
                                   THEN Enqueue(session[c], last'.events)
                                   ELSE session[c]]
    /\ UNCHANGED <<semaphore, ct, codec>>

\* No connection is open, the token has not fired, no code is at hand.
Disconnected ==
    /\ session = [c \in Conns |-> ClosedSession]
    /\ semaphore = [u \in Users |-> 0]
    /\ ct = "running"
    /\ codec = [pc |-> "none"]

(***************************************************************************)
(* The state after construction: an empty ledger, no request in progress.  *)
(***************************************************************************)
Init ==
    /\ now = 0
    /\ user = {}
    /\ invite = {}
    /\ recovery = {}
    /\ invoice = {}
    /\ offer = {}
    /\ receive = {}
    /\ send = {}
    /\ nextId = 1
    /\ task = [t \in Tasks |-> IdleTask]
    /\ nodeOut = {}
    /\ nodeIn = {}
    /\ ldkEvents = <<>>
    /\ reactor = "next"
    /\ last = Step("init", "none", "Ok", <<>>)
    /\ Disconnected

\* The clock advances.
Tick ==
    /\ now < MaxTime
    /\ now' = now + 1
    /\ last' = Step("tick", "none", "Ok", <<>>)
    /\ UNCHANGED <<tables, nextId, task, nodeVars, reactor>>
    /\ EventBus_send

(***************************************************************************)
(* The operator: cli user_invite and user_recover.                         *)
(***************************************************************************)
user_invite(invite_id, user_limit) ==
    /\ ~HasId(invite, invite_id)
    /\ invite' = InsertInto(invite, [id |-> invite_id, user_limit |-> user_limit,
                                     expires_at |-> now + day_ticks])
    /\ last' = Step("user_invite", "none", "Ok", <<>>)
    /\ UNCHANGED <<now, user, recovery, invoice, offer, receive, send, nextId,
                   task, nodeVars, reactor>>
    /\ EventBus_send

user_recover(recovery_id, user_pk) ==
    /\ ~HasId(recovery, recovery_id)
    /\ user_exists(user_pk)
    /\ recovery' = InsertInto(recovery, [id |-> recovery_id, user_pk |-> user_pk,
                                         expires_at |-> now + day_ticks])
    /\ last' = Step("user_recover", "none", "Ok", <<>>)
    /\ UNCHANGED <<now, user, invite, invoice, offer, receive, send, nextId,
                   task, nodeVars, reactor>>
    /\ EventBus_send

(***************************************************************************)
(* handle_request and client_method (client/mod.rs): the methods of the    *)
(* whitelist and, for each, whether it requires a registered user.         *)
(***************************************************************************)
Methods == {"register", "bolt11_receive", "bolt12_receive", "bolt11_send",
            "bolt12_send", "onchain_send", "set_recovery_name", "recover"}

\* The $auth argument handle_request passes for each method.
AuthRequired_recover_open(method) == method \notin {"register", "recover"}

AuthRequired(method) == method # "register"

\* client_method: if $auth && !user_exists(user_pk) { return Err(..) }
Unauthenticated(method, user_pk) == AuthRequired(method) /\ ~user_exists(user_pk)

\* A handler returns: the task is free again and the step is summarised.
Return(t, op, user_pk, result, events) ==
    /\ task' = [task EXCEPT ![t] = IdleTask]
    /\ last' = Step(op, user_pk, result, events)

\* A handler returns Ok with a value in its response.
Respond(t, op, user_pk, value, events) ==
    /\ task' = [task EXCEPT ![t] = IdleTask]
    /\ last' = [Step(op, user_pk, "Ok", events) EXCEPT !.value = value]

\* A handler goes on to its next step.
Goto(t, locals, op, user_pk) ==
    /\ task' = [task EXCEPT ![t] = locals]
    /\ last' = Step(op, user_pk, "running", <<>>)

\* A request of an unregistered user for a method that requires one.
reject_unauthenticated(t, user_pk, method) ==
    /\ Idle(t)
    /\ Unauthenticated(method, user_pk)
    /\ Return(t, method, user_pk, "Unauthenticated", <<>>)
    /\ UNCHANGED <<now, tables, nextId, nodeVars, reactor>>
    /\ EventBus_send

(***************************************************************************)
(* register (client/rpc.rs): the checks, then the insert.                  *)
(***************************************************************************)
\* The outcome of the checks of register for the invite named.
RegisterCheck_limit_exceeded(invite_id) ==
    IF ~HasId(invite, invite_id) THEN "UnknownInvite"
    ELSE IF Row(invite, invite_id).expires_at < now THEN "InviteExpired"
    ELSE IF Row(invite, invite_id).user_limit < count_invite_users(invite_id)
         THEN "InviteFull"
    ELSE "Ok"

RegisterCheck(invite_id) ==
    IF ~HasId(invite, invite_id) THEN "UnknownInvite"
    ELSE IF Row(invite, invite_id).expires_at < now THEN "InviteExpired"
    ELSE IF Row(invite, invite_id).user_limit <= count_invite_users(invite_id)
         THEN "InviteFull"
    ELSE "Ok"

register_begin(t, user_pk, invite_id) ==
    /\ Idle(t)
    /\ ~Unauthenticated("register", user_pk)
    /\ IF RegisterCheck(invite_id) = "Ok"
       THEN Goto(t, [IdleTask EXCEPT !.pc = "register_insert", !.op = "register",
                                     !.user_pk = user_pk, !.code = invite_id],
                 "register", user_pk)
       ELSE Return(t, "register", user_pk, RegisterCheck(invite_id), <<>>)
    /\ UNCHANGED <<now, tables, nextId, nodeVars, reactor>>
    /\ EventBus_send

register_user_with_invite_replace(user_pk, invite_id) ==
    {x \in user : x.user_pk # user_pk}
       \cup {[user_pk |-> user_pk, invite_id |-> invite_id, created_at |-> now]}

\* db::register_user_with_invite: insert ... on conflict (user_pk) do nothing
register_user_with_invite(user_pk, invite_id) ==
    IF user_exists(user_pk) THEN user
    ELSE user \cup {[user_pk |-> user_pk, invite_id |-> invite_id, created_at |-> now]}

register_insert(t) ==
    /\ task[t].pc = "register_insert"
    /\ user' = register_user_with_invite(task[t].user_pk, task[t].code)
    /\ Return(t, "register", task[t].user_pk, "Ok", <<>>)
    /\ UNCHANGED <<now, invite, recovery, invoice, offer, receive, send, nextId,
                   nodeVars, reactor>>
    /\ EventBus_send

(***************************************************************************)
(* bolt11_receive and bolt12_receive (client/rpc.rs).                      *)
(***************************************************************************)
check_amount_bounds_exclusive(amount_msat) ==
    IF amount_msat <= min_amount_sats * 1000 THEN "AmountBelowMin"
    ELSE IF amount_msat >= max_amount_sats * 1000 THEN "AmountAboveMax"
    ELSE "Ok"

\* check_amount_bounds
check_amount_bounds(amount_msat) ==
    IF amount_msat < min_amount_sats * 1000 THEN "AmountBelowMin"
    ELSE IF amount_msat > max_amount_sats * 1000 THEN "AmountAboveMax"
    ELSE "Ok"

\* The outcome of the checks of bolt11_receive.
Bolt11ReceiveCheck(user_pk, amount_msat) ==
    IF count_pending_invoices(user_pk) >= max_pending_payments_per_user
    THEN "TooManyPendingInvoices"
    ELSE check_amount_bounds(amount_msat)

\* The node mints an invoice with a new payment hash; db::create_invoice
\* stores it under that hash.
bolt11_receive(t, user_pk, amount_msat) ==
    /\ Idle(t)
    /\ ~Unauthenticated("bolt11_receive", user_pk)
    /\ IF Bolt11ReceiveCheck(user_pk, amount_msat) = "Ok"
       THEN /\ nextId <= MaxIds
            /\ invoice' = InsertInto(invoice,
                    [id |-> nextId, user_pk |-> user_pk, amount_msat |-> amount_msat,
                     expires_at |-> now + invoice_expiry_ticks])
            /\ nextId' = nextId + 1
            /\ Return(t, "bolt11_receive", user_pk, "Ok", <<>>)
       ELSE /\ Return(t, "bolt11_receive", user_pk,
                      Bolt11ReceiveCheck(user_pk, amount_msat), <<>>)
            /\ UNCHANGED <<invoice, nextId>>
    /\ UNCHANGED <<now, user, invite, recovery, offer, receive, send, nodeVars, reactor>>
    /\ EventBus_send

\* db::get_offer_by_user_pk: the user's offer created last.
UserOffers(user_pk) == {r \in offer : r.user_pk = user_pk}

get_offer_by_user_pk(user_pk) ==
    CHOOSE r \in UserOffers(user_pk) :
        \A q \in UserOffers(user_pk) : q.created_at <= r.created_at

\* bolt12_receive returns the stored offer when it is younger than 24 hours.
ReusesOffer(user_pk) ==
    /\ UserOffers(user_pk) # {}
    /\ get_offer_by_user_pk(user_pk).created_at > now - day_ticks

bolt12_receive(t, user_pk) ==
    /\ Idle(t)
    /\ ~Unauthenticated("bolt12_receive", user_pk)
    /\ IF ReusesOffer(user_pk)
       THEN UNCHANGED <<offer, nextId>>
       ELSE /\ nextId <= MaxIds
            /\ offer' = InsertInto(offer,
                    [id |-> nextId, user_pk |-> user_pk, created_at |-> now])
            /\ nextId' = nextId + 1
    /\ Return(t, "bolt12_receive", user_pk, "Ok", <<>>)
    /\ UNCHANGED <<now, user, invite, recovery, invoice, receive, send, nodeVars, reactor>>
    /\ EventBus_send

(***************************************************************************)
(* bolt11_send and bolt12_send (client/rpc.rs).  Three steps: check_send;  *)
(* the lookup of the invoice or offer, which ends in an internal transfer  *)
(* or in the submission to the node; the insert of the pending send.       *)
(***************************************************************************)
\* The fee check_send quotes.
fee_quote_without_base(amount_msat) == (amount_msat * fee_ppm) \div 1000000

fee_quote(amount_msat) == (amount_msat * fee_ppm) \div 1000000 + base_fee_msat

\* The outcome of check_send.
check_send(user_pk, amount_msat) ==
    IF count_pending_sends(user_pk) >= max_pending_payments_per_user
    THEN "TooManyPendingSends"
    ELSE IF check_amount_bounds(amount_msat) # "Ok" THEN check_amount_bounds(amount_msat)
    ELSE IF BalancePanics(receive, send, user_pk) THEN "panic"
    ELSE IF user_balance(receive, send, user_pk) < amount_msat THEN "InsufficientBalance"
    ELSE IF user_balance(receive, send, user_pk) < amount_msat + fee_quote(amount_msat)
         THEN "InsufficientBalance"
    ELSE "Ok"

\* push_events: the balance read after the write, then the two events.
\* Nothing is published when the balance read panics.
push_events(rcv, snd, user_pk, payment) ==
    IF BalancePanics(rcv, snd, user_pk) THEN <<>>
    ELSE <<BalanceEvent(user_pk, user_balance(rcv, snd, user_pk)), payment>>

\* The first step of either send; kind is "bolt11_send" or "bolt12_send".
\* target is the payment hash of the invoice or the id of the offer; 0
\* stands for an offer string that does not parse.
send_begin(t, kind, user_pk, target, amount_msat) ==
    /\ Idle(t)
    /\ ~Unauthenticated(kind, user_pk)
    /\ IF check_send(user_pk, amount_msat) = "Ok"
       THEN Goto(t, [IdleTask EXCEPT !.pc = "send_route", !.op = kind,
                        !.user_pk = user_pk, !.target = target,
                        !.amount_msat = amount_msat,
                        !.fee_msat = fee_quote(amount_msat)],
                 kind, user_pk)
       ELSE Return(t, kind, user_pk, check_send(user_pk, amount_msat), <<>>)
    /\ UNCHANGED <<now, tables, nextId, nodeVars, reactor>>
    /\ EventBus_send

\* get_invoice / get_offer: the stored record the send names, if any.
Minted(kind) == IF kind = "bolt11_send" THEN invoice ELSE offer

\* amount_msat of the stored record; an offer bolt12_receive mints has none.
RequestedAmount(kind, id) ==
    IF kind = "bolt11_send" THEN Row(invoice, id).amount_msat ELSE 0

\* db::create_internal_transfer: one transaction inserts the send, already
\* successful, and the receive, both under a new random id.
\* pr is the recovery id for a recovery; the payment requests of invoices
\* and offers are not told apart and stand as "request".
TransferSend(id, send_user_pk, amount_msat, fee_msat, pr, description) ==
    [id |-> id, user_pk |-> send_user_pk, amount_msat |-> amount_msat,
     fee_msat |-> fee_msat, description |-> description, pr |-> pr,
     status |-> "successful", created_at |-> now]

TransferReceive_own_id(id, receive_user_pk, amount_msat, pr, description) ==
    [id |-> id + 1, user_pk |-> receive_user_pk, amount_msat |-> amount_msat,
     description |-> description, pr |-> pr, created_at |-> now]

TransferReceive(id, receive_user_pk, amount_msat, pr, description) ==
    [id |-> id, user_pk |-> receive_user_pk, amount_msat |-> amount_msat,
     description |-> description, pr |-> pr, created_at |-> now]

create_internal_transfer_credits_fee(t, op, send_user_pk, receive_user_pk, amount_msat, fee_msat, pr, description) ==
    LET s == TransferSend(nextId, send_user_pk, amount_msat, fee_msat, pr, description)
        r == TransferReceive(nextId, receive_user_pk, amount_msat + fee_msat, pr, description)
        snd == InsertInto(send, s)
        rcv == InsertInto(receive, r)
        first == push_events(rcv, snd, send_user_pk, SendPayment(s, TRUE))
        second == push_events(rcv, snd, receive_user_pk, ReceivePayment(r, TRUE))
    IN /\ nextId <= MaxIds
       /\ send' = snd
       /\ receive' = rcv
       /\ nextId' = nextId + 1
       /\ IF first = <<>> THEN Return(t, op, task[t].user_pk, "panic", <<>>)
          ELSE IF second = <<>> THEN Return(t, op, task[t].user_pk, "panic", first)
          ELSE Respond(t, op, task[t].user_pk,
                       IF op = "recover" THEN amount_msat ELSE 0, first \o second)

create_internal_transfer(t, op, send_user_pk, receive_user_pk, amount_msat, fee_msat, pr, description) ==
    LET s == TransferSend(nextId, send_user_pk, amount_msat, fee_msat, pr, description)
        r == TransferReceive(nextId, receive_user_pk, amount_msat, pr, description)
        snd == InsertInto(send, s)
        rcv == InsertInto(receive, r)
        first == push_events(rcv, snd, send_user_pk, SendPayment(s, TRUE))
        second == push_events(rcv, snd, receive_user_pk, ReceivePayment(r, TRUE))
    IN /\ nextId <= MaxIds
       /\ send' = snd
       /\ receive' = rcv
       /\ nextId' = nextId + 1
       /\ IF first = <<>> THEN Return(t, op, task[t].user_pk, "panic", <<>>)
          ELSE IF second = <<>> THEN Return(t, op, task[t].user_pk, "panic", first)
          ELSE Respond(t, op, task[t].user_pk,
                       IF op = "recover" THEN amount_msat ELSE 0, first \o second)

send_internal_pays_self(t) ==
    LET kind == task[t].op
        rec == Row(Minted(kind), task[t].target)
    IN /\ task[t].pc = "send_route"
       /\ task[t].target # 0
       /\ HasId(Minted(kind), task[t].target)
       /\ IF RequestedAmount(kind, task[t].target) > task[t].amount_msat
          THEN /\ Return(t, kind, task[t].user_pk, "AmountBelowRequested", <<>>)
               /\ UNCHANGED <<send, receive, nextId>>
          ELSE create_internal_transfer(t, kind, task[t].user_pk, rec.user_pk,
                                        task[t].amount_msat, internal_fee_msat,
                                        "request", "")
       /\ UNCHANGED <<now, user, invite, recovery, invoice, offer, nodeVars, reactor>>
       /\ EventBus_send

send_internal_quoted_fee(t) ==
    LET kind == task[t].op
        rec == Row(Minted(kind), task[t].target)
    IN /\ task[t].pc = "send_route"
       /\ task[t].target # 0
       /\ HasId(Minted(kind), task[t].target)
       /\ IF rec.user_pk = task[t].user_pk
          THEN /\ Return(t, kind, task[t].user_pk, "SelfPayment", <<>>)
               /\ UNCHANGED <<send, receive, nextId>>
          ELSE IF RequestedAmount(kind, task[t].target) > task[t].amount_msat
          THEN /\ Return(t, kind, task[t].user_pk, "AmountBelowRequested", <<>>)
               /\ UNCHANGED <<send, receive, nextId>>
          ELSE create_internal_transfer(t, kind, task[t].user_pk, rec.user_pk,
                                        task[t].amount_msat, task[t].fee_msat,
                                        "request", "")
       /\ UNCHANGED <<now, user, invite, recovery, invoice, offer, nodeVars, reactor>>
       /\ EventBus_send

send_internal_transfers_first(t) ==
    LET kind == task[t].op
        rec == Row(Minted(kind), task[t].target)
    IN /\ task[t].pc = "send_route"
       /\ task[t].target # 0
       /\ HasId(Minted(kind), task[t].target)
       /\ IF rec.user_pk = task[t].user_pk
          THEN /\ Return(t, kind, task[t].user_pk, "SelfPayment", <<>>)
               /\ UNCHANGED <<send, receive, nextId>>
          ELSE IF RequestedAmount(kind, task[t].target) > task[t].amount_msat
          THEN /\ nextId <= MaxIds
               /\ send' = InsertInto(send, TransferSend(nextId, task[t].user_pk,
                              task[t].amount_msat, internal_fee_msat, "request", ""))
               /\ receive' = InsertInto(receive, TransferReceive(nextId, rec.user_pk,
                              task[t].amount_msat, "request", ""))
               /\ nextId' = nextId + 1
               /\ Return(t, kind, task[t].user_pk, "AmountBelowRequested", <<>>)
          ELSE create_internal_transfer(t, kind, task[t].user_pk, rec.user_pk,
                                        task[t].amount_msat, internal_fee_msat,
                                        "request", "")
       /\ UNCHANGED <<now, user, invite, recovery, invoice, offer, nodeVars, reactor>>
       /\ EventBus_send

\* The send names a record this daemon minted.
send_internal(t) ==
    LET kind == task[t].op
        rec == Row(Minted(kind), task[t].target)
    IN /\ task[t].pc = "send_route"
       /\ task[t].target # 0
       /\ HasId(Minted(kind), task[t].target)
       /\ IF rec.user_pk = task[t].user_pk
          THEN /\ Return(t, kind, task[t].user_pk, "SelfPayment", <<>>)
               /\ UNCHANGED <<send, receive, nextId>>
          ELSE IF RequestedAmount(kind, task[t].target) > task[t].amount_msat
          THEN /\ Return(t, kind, task[t].user_pk, "AmountBelowRequested", <<>>)
               /\ UNCHANGED <<send, receive, nextId>>
          ELSE create_internal_transfer(t, kind, task[t].user_pk, rec.user_pk,
                                        task[t].amount_msat, internal_fee_msat,
                                        "request", "")
       /\ UNCHANGED <<now, user, invite, recovery, invoice, offer, nodeVars, reactor>>
       /\ EventBus_send

\* Offer::from_str fails.
send_invalid_offer(t) ==
    /\ task[t].pc = "send_route"
    /\ task[t].op = "bolt12_send"
    /\ task[t].target = 0
    /\ Return(t, "bolt12_send", task[t].user_pk, "InvalidOffer", <<>>)
    /\ UNCHANGED <<now, tables, nextId, nodeVars, reactor>>
    /\ EventBus_send

\* The id the node gives an outbound payment: the payment hash for a bolt11
\* invoice, a new id for a bolt12 offer.
NodePaymentId(kind, target) == IF kind = "bolt11_send" THEN target ELSE nextId

\* The node takes a payment unless one with the same id is in flight or has
\* succeeded.
NodeTakes(id) == \A p \in nodeOut : p.id = id => p.status = "failed"

\* The row create_send_payment inserts for the payment the node took.
PendingSend(t) ==
    [id |-> task[t].payment_id, user_pk |-> task[t].user_pk,
     amount_msat |-> task[t].amount_msat, fee_msat |-> task[t].fee_msat,
     description |-> "", pr |-> "request", status |-> "pending", created_at |-> now]

\* The send names no stored record: send_using_amount, which the node may
\* refuse.
send_submit_record_first(t, accepted) ==
    LET kind == task[t].op
        id == NodePaymentId(kind, task[t].target)
    IN /\ task[t].pc = "send_route"
       /\ task[t].target # 0
       /\ ~HasId(Minted(kind), task[t].target)
       /\ ~HasId(send, id)
       /\ send' = InsertInto(send, [PendingSend(t) EXCEPT !.id = id])
       /\ IF accepted
          THEN /\ NodeTakes(id)
               /\ kind = "bolt12_send" => nextId <= MaxIds
               /\ nextId' = IF kind = "bolt12_send" THEN nextId + 1 ELSE nextId
               /\ nodeOut' = ReplaceInto(nodeOut, [id |-> id, status |-> "pending"])
               /\ Return(t, kind, task[t].user_pk, "Ok", <<>>)
          ELSE /\ Return(t, kind, task[t].user_pk, "NodeError", <<>>)
               /\ UNCHANGED <<nextId, nodeOut>>
       /\ UNCHANGED <<now, user, invite, recovery, invoice, offer, receive, nodeIn,
                      ldkEvents, reactor>>
       /\ EventBus_send

send_submit(t, accepted) ==
    LET kind == task[t].op
        id == NodePaymentId(kind, task[t].target)
    IN /\ task[t].pc = "send_route"
       /\ task[t].target # 0
       /\ ~HasId(Minted(kind), task[t].target)
       /\ IF accepted
          THEN /\ NodeTakes(id)
               /\ kind = "bolt12_send" => nextId <= MaxIds
               /\ nextId' = IF kind = "bolt12_send" THEN nextId + 1 ELSE nextId
               /\ nodeOut' = ReplaceInto(nodeOut, [id |-> id, status |-> "pending"])
               /\ Goto(t, [task[t] EXCEPT !.pc = "send_record", !.payment_id = id],
                       kind, task[t].user_pk)
          ELSE /\ Return(t, kind, task[t].user_pk, "NodeError", <<>>)
               /\ UNCHANGED <<nextId, nodeOut>>
       /\ UNCHANGED <<now, tables, nodeIn, ldkEvents, reactor>>
       /\ EventBus_send

\* db::create_send_payment with status "pending", then push_events.  The
\* insert panics when a send with the payment id is already stored.
send_record(t) ==
    LET s == PendingSend(t)
        snd == InsertInto(send, s)
        events == push_events(receive, snd, task[t].user_pk, SendPayment(s, TRUE))
    IN /\ task[t].pc = "send_record"
       /\ IF InsertFails(send, s)
          THEN /\ Return(t, task[t].op, task[t].user_pk, "panic", <<>>)
               /\ UNCHANGED send
          ELSE /\ send' = snd
               /\ Return(t, task[t].op, task[t].user_pk,
                         IF events = <<>> THEN "panic" ELSE "Ok", events)
       /\ UNCHANGED <<now, user, invite, recovery, invoice, offer, receive, nextId,
                      nodeVars, reactor>>
       /\ EventBus_send

(***************************************************************************)
(* recover (client/rpc.rs): the checks and the read of the balance of the  *)
(* user the code names, then the transfer of that amount.                  *)
(***************************************************************************)
RecoverCheck_source_may_call(user_pk, recovery_id) ==
    IF ~HasId(recovery, recovery_id) THEN "UnknownRecovery"
    ELSE IF Row(recovery, recovery_id).expires_at < now THEN "RecoveryExpired"
    ELSE IF BalancePanics(receive, send, Row(recovery, recovery_id).user_pk) THEN "panic"
    ELSE IF user_balance(receive, send, Row(recovery, recovery_id).user_pk) = 0
         THEN "EmptySourceBalance"
    ELSE "Ok"

RecoverCheck(user_pk, recovery_id) ==
    IF ~HasId(recovery, recovery_id) THEN "UnknownRecovery"
    ELSE IF Row(recovery, recovery_id).expires_at < now THEN "RecoveryExpired"
    ELSE IF user_pk = Row(recovery, recovery_id).user_pk THEN "SelfRecovery"
    ELSE IF BalancePanics(receive, send, Row(recovery, recovery_id).user_pk) THEN "panic"
    ELSE IF user_balance(receive, send, Row(recovery, recovery_id).user_pk) = 0
         THEN "EmptySourceBalance"
    ELSE "Ok"

recover_begin(t, user_pk, recovery_id) ==
    /\ Idle(t)
    /\ ~Unauthenticated("recover", user_pk)
    /\ IF RecoverCheck(user_pk, recovery_id) = "Ok"
       THEN Goto(t, [IdleTask EXCEPT !.pc = "recover_transfer", !.op = "recover",
                        !.user_pk = user_pk, !.code = recovery_id,
                        !.peer = Row(recovery, recovery_id).user_pk,
                        !.amount_msat = user_balance(receive, send,
                                            Row(recovery, recovery_id).user_pk)],
                 "recover", user_pk)
       ELSE Return(t, "recover", user_pk, RecoverCheck(user_pk, recovery_id), <<>>)
    /\ UNCHANGED <<now, tables, nextId, nodeVars, reactor>>
    /\ EventBus_send

recover_transfer(t) ==
    /\ task[t].pc = "recover_transfer"
    /\ create_internal_transfer(t, "recover", task[t].peer, task[t].user_pk,
                                task[t].amount_msat, 0, task[t].code, "Recovery")
    /\ UNCHANGED <<now, user, invite, recovery, invoice, offer, nodeVars, reactor>>
    /\ EventBus_send

(***************************************************************************)
(* The Lightning node: it settles the payments it was given, takes         *)
(* payments from outside for stored invoices and offers, and queues one    *)
(* event for each.                                                         *)
(***************************************************************************)
\* fee_paid_msat is an Option: <<>> when the node does not report a fee.
LdkEvent(kind, payment_id, amount_msat, fee_paid_msat) ==
    [kind |-> kind, payment_id |-> payment_id, amount_msat |-> amount_msat,
     fee_paid_msat |-> fee_paid_msat]

\* A payment the node was given succeeds or fails.
node_settle(id, outcome, fee_paid_msat) ==
    /\ Len(ldkEvents) < MaxQueue
    /\ outcome = "failed" => fee_paid_msat = <<>>
    /\ HasId(nodeOut, id)
    /\ Row(nodeOut, id).status = "pending"
    /\ nodeOut' = ReplaceInto(nodeOut, [id |-> id, status |-> outcome])
    /\ ldkEvents' = Append(ldkEvents,
            LdkEvent(IF outcome = "successful" THEN "PaymentSuccessful" ELSE "PaymentFailed",
                     id, 0, fee_paid_msat))
    /\ last' = Step("node_settle", "none", "Ok", <<>>)
    /\ UNCHANGED <<now, tables, nextId, task, nodeIn, reactor>>
    /\ EventBus_send

\* A payer outside pays a stored invoice, once and before it expires; the
\* id of the payment is the payment hash.
node_receive_bolt11(id) ==
    /\ Len(ldkEvents) < MaxQueue
    /\ HasId(invoice, id)
    /\ Row(invoice, id).expires_at >= now
    /\ ~HasId(nodeIn, id)
    /\ nodeIn' = InsertInto(nodeIn, [id |-> id, kind |-> "Bolt11", ref |-> id,
                                    amount_msat |-> Row(invoice, id).amount_msat])
    /\ ldkEvents' = Append(ldkEvents,
            LdkEvent("PaymentReceived", id, Row(invoice, id).amount_msat, <<>>))
    /\ last' = Step("node_receive", "none", "Ok", <<>>)
    /\ UNCHANGED <<now, tables, nextId, task, nodeOut, reactor>>
    /\ EventBus_send

\* A payer outside pays a stored offer; every payment has a new id.
node_receive_bolt12(id, amount_msat) ==
    /\ Len(ldkEvents) < MaxQueue
    /\ HasId(offer, id)
    /\ nextId <= MaxIds
    /\ nextId' = nextId + 1
    /\ nodeIn' = InsertInto(nodeIn, [id |-> nextId, kind |-> "Bolt12Offer", ref |-> id,
                                    amount_msat |-> amount_msat])
    /\ ldkEvents' = Append(ldkEvents, LdkEvent("PaymentReceived", nextId, amount_msat, <<>>))
    /\ last' = Step("node_receive", "none", "Ok", <<>>)
    /\ UNCHANGED <<now, tables, task, nodeOut, reactor>>
    /\ EventBus_send

\* A payer outside sends the node a payment that names no invoice and no
\* offer: a spontaneous payment, which the node accepts and reports.
node_receive_spontaneous(amount_msat) ==
    /\ Len(ldkEvents) < MaxQueue
    /\ nextId <= MaxIds
    /\ nextId' = nextId + 1
    /\ nodeIn' = InsertInto(nodeIn, [id |-> nextId, kind |-> "Spontaneous", ref |-> 0,
                                    amount_msat |-> amount_msat])
    /\ ldkEvents' = Append(ldkEvents, LdkEvent("PaymentReceived", nextId, amount_msat, <<>>))
    /\ last' = Step("node_receive", "none", "Ok", <<>>)
    /\ UNCHANGED <<now, tables, task, nodeOut, reactor>>
    /\ EventBus_send

(***************************************************************************)
(* The event loop (main.rs): process_ldk_event on the event at the head of *)
(* the queue, then event_handled, which removes it.  An event that was     *)
(* processed and not yet handled is delivered again after a restart.       *)
(***************************************************************************)
\* into_receive_record: the receive of an inbound payment, for the owner of
\* the invoice or offer the node's payment names.
Owner(payment_id) ==
    LET p == Row(nodeIn, payment_id)
    IN Row(IF p.kind = "Bolt11" THEN invoice ELSE offer, p.ref).user_pk

into_receive_record(payment_id, amount_msat) ==
    [id |-> payment_id, user_pk |-> Owner(payment_id), amount_msat |-> amount_msat,
     description |-> "", pr |-> "request", created_at |-> now]

\* db::create_receive_payment: replace into the receive table.
create_receive_payment_insert(record) == receive \cup {record}

create_receive_payment(record) == ReplaceInto(receive, record)

\* db::update_send_status: the status of the send with the id is set,
\* whatever it was.
update_send_status(id, status) ==
    {IF r.id = id THEN [r EXCEPT !.status = status] ELSE r : r \in send}

\* The reactor's step ends: it goes on, or the panic ends the loop.
Reacted(kind, user_pk, result, events) ==
    /\ reactor' = IF result = "panic" THEN "dead" ELSE "processed"
    /\ last' = [Step(kind, user_pk, result, events) EXCEPT
                   !.value = IF kind = "PaymentReceived"
                             THEN Cardinality({r \in receive :
                                                 r.id = Head(ldkEvents).payment_id})
                             ELSE 0]

payment_received(e) ==
    LET record == into_receive_record(e.payment_id, e.amount_msat)
        rcv == create_receive_payment(record)
        events == push_events(rcv, send, record.user_pk, ReceivePayment(record, TRUE))
    IN IF Row(nodeIn, e.payment_id).kind \notin {"Bolt11", "Bolt12Offer"}
       THEN /\ Reacted("PaymentReceived", "none", "panic", <<>>)
            /\ UNCHANGED <<send, receive>>
       ELSE /\ receive' = rcv
            /\ Reacted("PaymentReceived", record.user_pk,
                       IF events = <<>> THEN "panic" ELSE "Ok", events)
            /\ UNCHANGED send

payment_successful(e) ==
    IF ~HasId(send, e.payment_id)
    THEN /\ Reacted("PaymentSuccessful", "none", "panic", <<>>)
         /\ UNCHANGED <<send, receive>>
    ELSE /\ send' = update_send_status(e.payment_id, "successful")
         /\ Reacted("PaymentSuccessful", Row(send, e.payment_id).user_pk, "Ok",
                    <<UpdateEvent(Row(send, e.payment_id).user_pk, e.payment_id,
                                  "successful")>>)
         /\ UNCHANGED receive

payment_failed(e) ==
    IF ~HasId(send, e.payment_id)
    THEN /\ Reacted("PaymentFailed", "none", "NotFound", <<>>)
         /\ UNCHANGED <<send, receive>>
    ELSE LET snd == update_send_status(e.payment_id, "failed")
             user_pk == Row(send, e.payment_id).user_pk
         IN /\ send' = snd
            /\ IF BalancePanics(receive, snd, user_pk)
               THEN Reacted("PaymentFailed", user_pk, "panic", <<>>)
               ELSE Reacted("PaymentFailed", user_pk, "Ok",
                            <<BalanceEvent(user_pk, user_balance(receive, snd, user_pk)),
                              UpdateEvent(user_pk, e.payment_id, "failed")>>)
            /\ UNCHANGED receive

process_ldk_event ==
    /\ reactor = "next"
    /\ ldkEvents # <<>>
    /\ LET e == Head(ldkEvents)
       IN CASE e.kind = "PaymentReceived" -> payment_received(e)
            [] e.kind = "PaymentSuccessful" -> payment_successful(e)
            [] e.kind = "PaymentFailed" -> payment_failed(e)
    /\ UNCHANGED <<now, user, invite, recovery, invoice, offer, nextId, task, nodeVars>>
    /\ EventBus_send

event_handled ==
    /\ reactor = "processed"
    /\ ldkEvents' = Tail(ldkEvents)
    /\ reactor' = "next"
    /\ last' = Step("event_handled", "none", "Ok", <<>>)
    /\ UNCHANGED <<now, tables, nextId, task, nodeOut, nodeIn>>
    /\ EventBus_send

\* The daemon stops before event_handled and starts again: the handlers in
\* progress are gone and the node delivers the event again.
restart ==
    /\ reactor \in {"processed", "dead"}
    /\ reactor' = "next"
    /\ task' = [t \in Tasks |-> IdleTask]
    /\ last' = Step("restart", "none", "Ok", <<>>)
    /\ session' = [c \in Conns |-> ClosedSession]
    /\ semaphore' = [u \in Users |-> 0]
    /\ ct' = "running"
    /\ UNCHANGED <<now, tables, nextId, nodeVars, codec>>

(***************************************************************************)
(* The whole daemon.                                                       *)
(***************************************************************************)
SendKinds == {"bolt11_send", "bolt12_send"}

\* What a send may name: a stored invoice or offer, one of another node, or
\* an offer string that does not parse.
Targets(kind) ==
    IF kind = "bolt11_send" THEN {r.id : r \in invoice} \cup ExtHashes
    ELSE {r.id : r \in offer} \cup ExtOffers \cup {0}

Operator ==
    \/ \E i \in NewInviteIds, l \in UserLimits : user_invite(i, l)
    \/ \E r \in RecoveryIds, u \in Users : user_recover(r, u)

Registration ==
    \/ \E t \in Tasks, u \in Users, i \in InviteIds : register_begin(t, u, i)
    \/ \E t \in Tasks : register_insert(t)
    \/ \E t \in Tasks, u \in Users, m \in Methods : reject_unauthenticated(t, u, m)

Receives(receivers, amounts) ==
    \/ \E t \in Tasks, u \in receivers, a \in amounts : bolt11_receive(t, u, a)
    \/ \E t \in Tasks, u \in receivers : bolt12_receive(t, u)

Sends(senders, amounts) ==
    \/ \E t \in Tasks, k \in SendKinds, u \in senders, a \in amounts :
           \E g \in Targets(k) : send_begin(t, k, u, g, a)
    \/ \E t \in Tasks : send_internal(t)
    \/ \E t \in Tasks : send_invalid_offer(t)
    \/ \E t \in Tasks, accepted \in BOOLEAN : send_submit(t, accepted)
    \/ \E t \in Tasks : send_record(t)

Recovers ==
    \/ \E t \in Tasks, u \in Users, r \in RecoveryIds : recover_begin(t, u, r)
    \/ \E t \in Tasks : recover_transfer(t)

Node ==
    \/ \E p \in nodeOut, o \in {"successful", "failed"}, f \in PaidFees :
           node_settle(p.id, o, f)
    \/ \E r \in invoice : node_receive_bolt11(r.id)
    \/ \E r \in offer, a \in PayAmounts : node_receive_bolt12(r.id, a)

Reactor ==
    \/ process_ldk_event
    \/ event_handled
    \/ restart

Next ==
    \/ Tick
    \/ Operator
    \/ Registration
    \/ Receives(Users, ReqAmounts)
    \/ Sends(Users, ReqAmounts)
    \/ Recovers
    \/ Node
    \/ Reactor

Spec == Init /\ [][Next]_vars

(***************************************************************************)
(* Registration and the gate in front of the methods, from the empty       *)
(* database: every method is called by users who have and who have not     *)
(* registered.  Nobody has a balance, so no send goes past check_send.     *)
(***************************************************************************)
NextAccess ==
    \/ Tick
    \/ Operator
    \/ Registration
    \/ \E t \in Tasks, u \in Users : bolt11_receive(t, u, min_amount_sats * 1000 - 1)
    \/ \E t \in Tasks, k \in SendKinds, u \in Users, a \in SendAmounts :
           \E g \in Targets(k) : send_begin(t, k, u, g, a)
    \/ \E t \in Tasks, u \in Users, r \in RecoveryIds : recover_begin(t, u, r)

SpecAccess == Init /\ [][NextAccess]_vars

(***************************************************************************)
(* The ledger.  Both users have registered with one invite, and a payer    *)
(* outside has paid 20000 msat to the offer of user a.  From there: new    *)
(* invoices and offers, the sends of user a, the node's settlements and    *)
(* the event loop.                                                         *)
(***************************************************************************)
Registered ==
    /\ now = 0
    /\ user = {[user_pk |-> u, invite_id |-> "i1", created_at |-> 0] : u \in Users}
    /\ invite = {[id |-> "i1", user_limit |-> 2, expires_at |-> day_ticks]}
    /\ recovery = {}
    /\ invoice = {}
    /\ send = {}
    /\ task = [t \in Tasks |-> IdleTask]
    /\ nodeOut = {}
    /\ ldkEvents = <<>>
    /\ reactor = "next"
    /\ last = Step("init", "none", "Ok", <<>>)
    /\ Disconnected

InitFunded ==
    /\ Registered
    /\ offer = {[id |-> 1, user_pk |-> "a", created_at |-> 0]}
    /\ nodeIn = {[id |-> 2, kind |-> "Bolt12Offer", ref |-> 1, amount_msat |-> 20000]}
    /\ receive = {[id |-> 2, user_pk |-> "a", amount_msat |-> 20000,
                   description |-> "", pr |-> "request", created_at |-> 0]}
    /\ nextId = 3

NextLedger ==
    \/ Receives(Receivers, InvoiceAmounts)
    \/ Sends(Senders, SendAmounts)
    \/ \E p \in nodeOut, o \in {"successful", "failed"} : node_settle(p.id, o, <<>>)
    \/ Reactor

SpecLedger == InitFunded /\ [][NextLedger]_vars

(***************************************************************************)
(* Inbound payments.  Both users have registered; invoices and offers,     *)
(* the payments of payers outside, the event loop and the clock.           *)
(***************************************************************************)
InitInbound ==
    /\ Registered
    /\ offer = {}
    /\ nodeIn = {}
    /\ receive = {}
    /\ nextId = 1

NextInbound ==
    \/ Tick
    \/ Receives(Users, InvoiceAmounts)
    \/ \E r \in invoice : node_receive_bolt11(r.id)
    \/ \E r \in offer, a \in PayAmounts : node_receive_bolt12(r.id, a)
    \/ Reactor

SpecInbound == InitInbound /\ [][NextInbound]_vars

(***************************************************************************)
(* Recovery.  The operator issues a recovery code for a user; users call   *)
(* recover while payers outside pay the offer of user a and the event loop *)
(* credits them.                                                           *)
(***************************************************************************)
NextRecover ==
    \/ Tick
    \/ \E r \in RecoveryIds, u \in Users : user_recover(r, u)
    \/ Recovers
    \/ \E r \in offer, a \in PayAmounts : node_receive_bolt12(r.id, a)
    \/ Reactor

SpecRecover == InitFunded /\ [][NextRecover]_vars

(***************************************************************************)
(* Routing of sends.  Both users mint invoices and offers; user a, who     *)
(* holds funds, pays records of this daemon and of other nodes.            *)
(***************************************************************************)
NextRouting ==
    \/ Receives(Users, InvoiceAmounts)
    \/ Sends(Senders, SendAmounts)

SpecRouting == InitFunded /\ [][NextRouting]_vars

(***************************************************************************)
(* Fees of external sends.  User a holds 500000 msat, as user B does in    *)
(* the end-to-end test before its external sends; over one connection a   *)
(* pays invoices and offers of other nodes, the node settles the payments  *)
(* with or without a reported fee, and the event loop reconciles them.     *)
(***************************************************************************)
InitFees ==
    /\ Registered
    /\ offer = {[id |-> 1, user_pk |-> "a", created_at |-> 0]}
    /\ nodeIn = {[id |-> 2, kind |-> "Bolt12Offer", ref |-> 1, amount_msat |-> 500000]}
    /\ receive = {[id |-> 2, user_pk |-> "a", amount_msat |-> 500000,
                   description |-> "", pr |-> "request", created_at |-> 0]}
    /\ nextId = 3

NextFees ==
    \/ \E t \in FeeTasks, k \in SendKinds, u \in Senders, a \in FeeAmounts :
           \E g \in Targets(k) : send_begin(t, k, u, g, a)
    \/ \E t \in FeeTasks : send_internal(t)
    \/ \E t \in FeeTasks : send_invalid_offer(t)
    \/ \E t \in FeeTasks, accepted \in BOOLEAN : send_submit(t, accepted)
    \/ \E t \in FeeTasks : send_record(t)
    \/ \E p \in nodeOut, o \in {"successful", "failed"}, f \in PaidFees :
           node_settle(p.id, o, f)
    \/ Reactor

SpecFees == InitFees /\ [][NextFees]_vars

(***************************************************************************)
(* Amount bounds.  Users ask for invoices and send with amounts at and     *)
(* next to min_amount_sats * 1000 and max_amount_sats * 1000.              *)
(***************************************************************************)
NextBounds ==
    \/ Tick
    \/ \E t \in FeeTasks, u \in Users, a \in BoundAmounts : bolt11_receive(t, u, a)
    \/ \E t \in FeeTasks, k \in SendKinds, u \in Senders, a \in BoundAmounts :
           \E g \in Targets(k) : send_begin(t, k, u, g, a)
    \/ \E t \in FeeTasks : send_internal(t)
    \/ \E t \in FeeTasks : send_invalid_offer(t)
    \/ \E t \in FeeTasks, accepted \in BOOLEAN : send_submit(t, accepted)
    \/ \E t \in FeeTasks : send_record(t)

SpecBounds == InitFunded /\ [][NextBounds]_vars

(***************************************************************************)
(* Codes (puncture-core/src/lib.rs).  The operator's commands build a      *)
(* PunctureCode and hand out its encoding; a client decodes the text.      *)
(* encode is "pct" followed by the lowercase hex of the postcard bytes:    *)
(* one byte for the variant, the bytes of the id, and for an invite the    *)
(* bytes of the node id after their length.  A text is a tuple of          *)
(* characters.                                                             *)
(***************************************************************************)
HexDigits == <<"0", "1", "2", "3", "4", "5", "6", "7", "8", "9",
               "a", "b", "c", "d", "e", "f">>

\* DisplayHex::as_hex of one byte.
byte_as_hex_low_first(b) == <<HexDigits[(b % 16) + 1], HexDigits[(b \div 16) + 1]>>

byte_as_hex(b) == <<HexDigits[(b \div 16) + 1], HexDigits[(b % 16) + 1]>>

IsHexDigit(ch) == \E i \in 1..16 : HexDigits[i] = ch

HexValue(ch) == (CHOOSE i \in 1..16 : HexDigits[i] = ch) - 1

\* DisplayHex::as_hex of a sequence of bytes.
RECURSIVE as_hex(_)
as_hex(bytes) ==
    IF bytes = <<>> THEN <<>> ELSE byte_as_hex(Head(bytes)) \o as_hex(Tail(bytes))

\* A Result: Err, or Ok of a value.
Err == [ok |-> FALSE]

Ok(v) == [ok |-> TRUE, v |-> v]

\* Vec::from_hex: the bytes of a text of hex digits.
RECURSIVE from_hex(_)
from_hex(text) ==
    IF text = <<>> THEN Ok(<<>>)
    ELSE IF Len(text) = 1 THEN Err
    ELSE IF ~IsHexDigit(text[1]) \/ ~IsHexDigit(text[2]) THEN Err
    ELSE LET rest == from_hex(Tail(Tail(text)))
         IN IF ~rest.ok THEN Err
            ELSE Ok(<<HexValue(text[1]) * 16 + HexValue(text[2])>> \o rest.v)

PunctureCode_invite(id, node_id) ==
    [variant |-> "Invite", id |-> id, node_id |-> node_id]

PunctureCode_recovery(id) ==
    [variant |-> "Recovery", id |-> id, node_id |-> <<>>]

\* postcard::to_allocvec
to_allocvec(c) ==
    IF c.variant = "Invite"
    THEN <<0>> \o c.id \o <<Len(c.node_id)>> \o c.node_id
    ELSE <<1>> \o c.id

\* postcard::from_bytes: the code the bytes begin with.
from_bytes(bytes) ==
    IF Len(bytes) < 1 + IdLen THEN Err
    ELSE IF bytes[1] = 1
         THEN Ok(PunctureCode_recovery(SubSeq(bytes, 2, 1 + IdLen)))
    ELSE IF bytes[1] # 0 \/ Len(bytes) < 2 + IdLen THEN Err
    ELSE IF Len(bytes) < 2 + IdLen + bytes[2 + IdLen] THEN Err
    ELSE IF bytes[2 + IdLen] # NodeIdLen THEN Err
    ELSE Ok(PunctureCode_invite(SubSeq(bytes, 2, 1 + IdLen),
                                SubSeq(bytes, 3 + IdLen, 2 + IdLen + bytes[2 + IdLen])))

PunctureCode_encode(c) == <<"p", "c", "t">> \o as_hex(to_allocvec(c))

PunctureCode_decode(text) ==
    IF Len(text) < 3 THEN Err
    ELSE IF SubSeq(text, 1, 3) # <<"p", "c", "t">> THEN Err
    ELSE IF ~from_hex(SubSeq(text, 4, Len(text))).ok THEN Err
    ELSE from_bytes(from_hex(SubSeq(text, 4, Len(text))).v)

RECURSIVE ByteSeqs(_)
ByteSeqs(n) ==
    IF n = 0 THEN {<<>>} ELSE {<<b>> \o s : b \in Bytes, s \in ByteSeqs(n - 1)}

Codes ==
    {PunctureCode_invite(id, node_id) : id \in ByteSeqs(IdLen), node_id \in ByteSeqs(NodeIdLen)}
       \cup {PunctureCode_recovery(id) : id \in ByteSeqs(IdLen)}

daemonVars == <<now, tables, nextId, task, nodeVars, reactor, last>>

\* The operator's invite or recover command answers with the encoded code.
code_issue(c) ==
    /\ codec.pc = "none"
    /\ codec' = [pc |-> "encoded", value |-> c, text |-> PunctureCode_encode(c)]
    /\ UNCHANGED <<daemonVars, session, semaphore, ct>>

\* A client decodes the text it was given.
code_decode ==
    /\ codec.pc = "encoded"
    /\ codec' = [pc |-> "decoded", value |-> codec.value, text |-> codec.text,
                 decoded |-> PunctureCode_decode(codec.text)]
    /\ UNCHANGED <<daemonVars, session, semaphore, ct>>

NextCodes ==
    \/ \E c \in Codes : code_issue(c)
    \/ code_decode

SpecCodes == Init /\ [][NextCodes]_vars

(***************************************************************************)
(* The client session layer (client/mod.rs).  run_api spawns one task per  *)
(* connection; the task counts the connection against its user, builds the *)
(* event stream and then drives the connection: one select over the next   *)
(* request, the next event and the cancellation token.                     *)
(***************************************************************************)
\* ensure!(counter.load(..) < 10)
connection_admits(n) == n < max_connections

\* handle_connection_inner up to the first await of events(): the counter
\* of the user is read and incremented while the entry of the map is held,
\* then drive_connection subscribes to the event bus.  A refused connection
\* is dropped.
connection_accept(c, user_pk) ==
    /\ ct = "running"
    /\ session[c].pc \in {"closed", "rejected"}
    /\ IF connection_admits(semaphore[user_pk])
       THEN /\ semaphore' = [semaphore EXCEPT ![user_pk] = @ + 1]
            /\ session' = [session EXCEPT ![c] =
                   [ClosedSession EXCEPT !.pc = "subscribed", !.user_pk = user_pk]]
       ELSE /\ session' = [session EXCEPT ![c] =
                   [ClosedSession EXCEPT !.pc = "rejected", !.user_pk = user_pk]]
            /\ UNCHANGED semaphore
    /\ UNCHANGED <<daemonVars, ct, codec>>

\* events(): db::user_balance, which panics on a negative balance; the
\* task dies with its connection, and nothing decrements the counter.
events_balance(c) ==
    LET u == session[c].user_pk
    IN /\ session[c].pc = "subscribed"
       /\ IF BalancePanics(receive, send, u)
          THEN session' = [session EXCEPT ![c] =
                   [ClosedSession EXCEPT !.pc = "dead", !.user_pk = u]]
          ELSE session' = [session EXCEPT ![c].pc = "balance_read",
                                          ![c].balance_msat = user_balance(receive, send, u)]
       /\ UNCHANGED <<daemonVars, semaphore, ct, codec>>

\* The rows db::user_payments loads, receives before sends, each table in
\* the order the database returns its rows.
Orders(S) ==
    {f \in [1..Cardinality(S) -> S] : \A i, j \in 1..Cardinality(S) : f[i] = f[j] => i = j}

Loads(user_pk) ==
    LET receive_payments == {ReceivePayment(r, FALSE) : r \in {x \in receive : x.user_pk = user_pk}}
        send_payments == {SendPayment(r, FALSE) : r \in {x \in send : x.user_pk = user_pk}}
    IN {r \o s : r \in Orders(receive_payments), s \in Orders(send_payments)}

\* Vec::sort_by_key(|payment| payment.created_at): a stable sort.
RECURSIVE sort_by_key(_)
sort_by_key(payments) ==
    IF payments = <<>> THEN <<>>
    ELSE LET x == payments[Len(payments)]
             sorted == sort_by_key(SubSeq(payments, 1, Len(payments) - 1))
         IN SelectSeq(sorted, LAMBDA e : e.created_at <= x.created_at)
            \o <<x>> \o SelectSeq(sorted, LAMBDA e : e.created_at > x.created_at)

user_payments_as_loaded(all_payments) == all_payments

\* db::user_payments
user_payments(all_payments) == sort_by_key(all_payments)

\* events(): db::user_payments, then the stream: the balance, the stored
\* payments, the subscription.
events_payments(c) ==
    LET u == session[c].user_pk
    IN /\ session[c].pc = "balance_read"
       /\ \E all_payments \in Loads(u) :
             LET prefix == <<BalanceEvent(u, session[c].balance_msat)>>
                           \o user_payments(all_payments)
             IN session' = [session EXCEPT ![c].pc = "driving",
                                           ![c].prefix = prefix,
                                           ![c].replay = prefix]
       /\ UNCHANGED <<daemonVars, semaphore, ct, codec>>

filter_any_user(user_id, event) == TRUE

\* events.rs filter, for a message the receiver holds.
filter(user_id, event) == event.user_pk = user_id

\* drive_connection, the event arm of the select: the next item of the
\* stream is written to the client.  The stream yields the prefix, then
\* what the subscription holds: an error if the receiver has lagged, which
\* ends drive_connection, else the oldest message, which filter lets pass
\* or not.  After drive_connection handle_connection_inner awaits
\* connection.closed().
forward(c) ==
    LET s == session[c]
    IN /\ s.pc = "driving"
       /\ IF s.prefix # <<>>
          THEN session' = [session EXCEPT ![c].prefix = Tail(s.prefix),
                                          ![c].out = Append(s.out, Head(s.prefix))]
          ELSE IF s.lagged
          THEN session' = [session EXCEPT ![c].pc = "waiting", ![c].lagged = FALSE,
                                          ![c].queue = <<>>]
          ELSE /\ s.queue # <<>>
               /\ session' = [session EXCEPT ![c].queue = Tail(s.queue),
                                  ![c].out = IF filter(s.user_pk, Head(s.queue))
                                             THEN Append(s.out, Head(s.queue))
                                             ELSE s.out]
       /\ UNCHANGED <<daemonVars, semaphore, ct, codec>>

\* drive_connection, the request arm of the select: accept_bi yields the
\* streams of a request and handle_request is awaited in the arm; no event
\* is forwarded and the token is not looked at until it returns.
request_begin(c) ==
    /\ session[c].pc = "driving"
    /\ ct # "closed"
    /\ session' = [session EXCEPT ![c].pc = "handling"]
    /\ UNCHANGED <<daemonVars, semaphore, ct, codec>>

\* handle_request writes the response; the select runs again.
request_end(c) ==
    /\ session[c].pc = "handling"
    /\ ct # "closed"
    /\ session' = [session EXCEPT ![c].pc = "driving"]
    /\ UNCHANGED <<daemonVars, semaphore, ct, codec>>

\* main: ct.cancel() after the shutdown signal.
ct_cancel ==
    /\ ct = "running"
    /\ ct' = "cancelled"
    /\ UNCHANGED <<daemonVars, session, semaphore, codec>>

\* run_api: the accept loop breaks on the token and endpoint.close()
\* closes every connection of the endpoint.
endpoint_close ==
    /\ ct = "cancelled"
    /\ ct' = "closed"
    /\ UNCHANGED <<daemonVars, session, semaphore, codec>>

\* drive_connection, the cancellation arm of the select: return Ok(()).
session_cancelled(c) ==
    /\ session[c].pc = "driving"
    /\ ct # "running"
    /\ session' = [session EXCEPT ![c].pc = "waiting", ![c].queue = <<>>,
                                  ![c].lagged = FALSE]
    /\ UNCHANGED <<daemonVars, semaphore, ct, codec>>

\* The connection is closed, by the client or by endpoint.close():
\* accept_bi fails and drive_connection returns if it has not yet,
\* connection.closed() resolves and the counter is decremented.
connection_closed(c) ==
    /\ session[c].pc \in {"driving", "waiting"}
    /\ session' = [session EXCEPT ![c] = ClosedSession]
    /\ semaphore' = [semaphore EXCEPT ![session[c].user_pk] = @ - 1]
    /\ UNCHANGED <<daemonVars, ct, codec>>

\* handle_request after endpoint.close(): write_all fails on the closed
\* connection, the error ends drive_connection, and the session ends as
\* for any closed connection.
response_lost(c) ==
    /\ session[c].pc = "handling"
    /\ ct = "closed"
    /\ session' = [session EXCEPT ![c] = ClosedSession]
    /\ semaphore' = [semaphore EXCEPT ![session[c].user_pk] = @ - 1]
    /\ UNCHANGED <<daemonVars, ct, codec>>

(***************************************************************************)
(* Events of one connection.  User a holds 20000 msat and an offer; over   *)
(* one connection a pays an invoice or an offer of another node, payers    *)
(* outside pay the offer of a or an offer b asks for, and the clock        *)
(* advances.  A client of a or of b connects, reads its events and closes. *)
(***************************************************************************)
NextEvents ==
    \/ Tick
    \/ \E g \in ExtHashes : send_begin("t1", "bolt11_send", "a", g, 1000)
    \/ \E g \in ExtOffers : send_begin("t1", "bolt12_send", "a", g, 1000)
    \/ \E accepted \in BOOLEAN : send_submit("t1", accepted)
    \/ send_record("t1")
    \/ \E u \in Receivers : bolt12_receive("t1", u)
    \/ \E r \in offer, a \in PayAmounts : node_receive_bolt12(r.id, a)
    \/ process_ldk_event
    \/ event_handled
    \/ \E u \in Users : connection_accept("c1", u)
    \/ events_balance("c1")
    \/ events_payments("c1")
    \/ forward("c1")
    \/ connection_closed("c1")

SpecEvents == InitFunded /\ [][NextEvents]_vars

(***************************************************************************)
(* Connections.  Clients of a and b open and close connections, send       *)
(* requests and read the prefix of their events, while the ledger rests;   *)
(* the shutdown signal cancels the token and run_api closes the endpoint.  *)
(***************************************************************************)
NextConnections ==
    \/ \E c \in Conns, u \in Users : connection_accept(c, u)
    \/ \E c \in Conns : events_balance(c)
    \/ \E c \in Conns : events_payments(c)
    \/ \E c \in Conns : forward(c)
    \/ \E c \in Conns : request_begin(c)
    \/ \E c \in Conns : request_end(c)
    \/ \E c \in Conns : connection_closed(c)
    \/ \E c \in Conns : session_cancelled(c)
    \/ \E c \in Conns : response_lost(c)
    \/ ct_cancel
    \/ endpoint_close

SpecConnections == InitFunded /\ [][NextConnections]_vars

(***************************************************************************)
(* Connections of an overdrawn user.  User a holds 20000 msat; two         *)
(* connections of a pay an invoice and an offer of other nodes at the same *)
(* time, and a client of a connects once more.                             *)
(***************************************************************************)
NextOverdraft ==
    \/ \E t \in Tasks, g \in ExtHashes : send_begin(t, "bolt11_send", "a", g, 1000)
    \/ \E t \in Tasks, g \in ExtOffers : send_begin(t, "bolt12_send", "a", g, 1000)
    \/ \E t \in Tasks, accepted \in BOOLEAN : send_submit(t, accepted)
    \/ \E t \in Tasks : send_record(t)
    \/ \E u \in Senders : connection_accept("c1", u)
    \/ events_balance("c1")
    \/ events_payments("c1")
    \/ forward("c1")
    \/ connection_closed("c1")

SpecOverdraft == InitFunded /\ [][NextOverdraft]_vars

(***************************************************************************)
(* A recovery beside a send of its source.  User a holds 20000 msat and    *)
(* the operator issues a recovery code for a; over one connection a pays   *)
(* an invoice or an offer of another node while, over another connection,  *)
(* b redeems the code; the clock advances.                                 *)
(***************************************************************************)
NextRecoverRace ==
    \/ Tick
    \/ \E r \in RecoveryIds, u \in Senders : user_recover(r, u)
    \/ \E r \in RecoveryIds, u \in Receivers : recover_begin("t2", u, r)
    \/ recover_transfer("t2")
    \/ \E g \in ExtHashes : send_begin("t1", "bolt11_send", "a", g, 1000)
    \/ \E g \in ExtOffers : send_begin("t1", "bolt12_send", "a", g, 1000)
    \/ \E accepted \in BOOLEAN : send_submit("t1", accepted)
    \/ send_record("t1")

SpecRecoverRace == InitFunded /\ [][NextRecoverRace]_vars

(***************************************************************************)
(* Payments of other kinds.  Payers outside pay the offer of a or send the *)
(* node a spontaneous payment; the event loop takes the events in turn.    *)
(***************************************************************************)
NextUnexpected ==
    \/ Tick
    \/ \E r \in offer, a \in PayAmounts : node_receive_bolt12(r.id, a)
    \/ \E a \in PayAmounts : node_receive_spontaneous(a)
    \/ Reactor

SpecUnexpected == InitFunded /\ [][NextUnexpected]_vars

(***************************************************************************)
(* An invoice paid again.  b asks for an invoice; a payer outside pays it  *)
(* or the clock passes its expiry, and a, who holds 20000 msat, pays it    *)
(* over one connection.                                                    *)
(***************************************************************************)
NextInvoiceReuse ==
    \/ Tick
    \/ \E u \in Receivers, a \in InvoiceAmounts : bolt11_receive("t1", u, a)
    \/ \E r \in invoice : node_receive_bolt11(r.id)
    \/ process_ldk_event
    \/ event_handled
    \/ \E r \in invoice, a \in SendAmounts : send_begin("t1", "bolt11_send", "a", r.id, a)
    \/ send_internal("t1")

SpecInvoiceReuse == InitFunded /\ [][NextInvoiceReuse]_vars

(***************************************************************************)
(* The properties.                                                         *)
(***************************************************************************)
\* C1: in every reachable state the balance of every user, the sum of the
\* receives minus the sum of amount + fee over the sends that have not
\* failed, is at least 0.
C1_BalanceNonNegative == \A u \in Users : LedgerBalance(u) >= 0

\* C2: two sends of one user that have both passed check_send and have not
\* yet written their send record are covered together by the user's balance:
\* the balance read of one never runs between the read and the insert of another.
C2_SendsSerialized ==
    \A t1, t2 \in Tasks :
        (/\ t1 # t2
         /\ task[t1].pc \in {"send_route", "send_record"}
         /\ task[t2].pc \in {"send_route", "send_record"}
         /\ task[t1].user_pk = task[t2].user_pk)
        => LedgerBalance(task[t1].user_pk) >=
               task[t1].amount_msat + task[t1].fee_msat
               + task[t2].amount_msat + task[t2].fee_msat

\* C3: the send row of an internal transfer (a send the node was never
\* given) exists exactly when the receive row with the same id (a receive
\* the node never reported) exists, for the same amount.
C3_TransferPaired ==
    \A id \in {s.id : s \in send} \cup {r.id : r \in receive} :
        /\ (HasId(send, id) /\ ~HasId(nodeOut, id))
               <=> (HasId(receive, id) /\ ~HasId(nodeIn, id))
        /\ (HasId(send, id) /\ ~HasId(nodeOut, id))
               => /\ Cardinality({s \in send : s.id = id}) = 1
                  /\ Cardinality({r \in receive : r.id = id}) = 1
                  /\ Row(send, id).amount_msat = Row(receive, id).amount_msat

C3_Witness ==
    \E s \in send : /\ ~HasId(nodeOut, s.id)
                     /\ s.status = "successful"
                     /\ HasId(receive, s.id)
                     /\ Row(receive, s.id).user_pk # s.user_pk

\* C4: a send that is successful or failed keeps its status in every step.
C4_TerminalStatusKept ==
    [][\A s \in send :
          s.status \in {"successful", "failed"}
          => \E q \in send' : q.id = s.id /\ q.status = s.status]_vars

\* C5: every payment the node received has at most one receive row, exactly
\* one once its event was processed, also when the event is processed
\* again; the receives of a user add up to the payments received for the
\* user, each counted once.
C5_ReceivedOnce ==
    /\ \A p \in nodeIn :
          /\ Cardinality({r \in receive : r.id = p.id}) <= 1
          /\ (\/ \A i \in 1..Len(ldkEvents) : ldkEvents[i].payment_id # p.id
              \/ (Head(ldkEvents).payment_id = p.id /\ reactor = "processed"))
             => Cardinality({r \in receive : r.id = p.id}) = 1
    /\ \A u \in Users :
          receive_sum(receive, u) =
              SumAmounts({p \in nodeIn : HasId(receive, p.id) /\ Owner(p.id) = u})

C5_Witness ==
    /\ reactor = "processed"
    /\ last.op = "PaymentReceived"
    /\ last.value = 1
    /\ Cardinality({r \in receive : r.id = Head(ldkEvents).payment_id}) = 1
    /\ Row(receive, Head(ldkEvents).payment_id).created_at > 0

\* C6: no user has more than max_pending_payments_per_user pending sends.
C6_PendingSendsCapped ==
    \A u \in Users : count_pending_sends(u) <= max_pending_payments_per_user

\* C7: when the node takes a payment to send, a pending send with the id of
\* the payment is already stored.
C7_DebitBeforeSubmit ==
    [][\A p \in nodeOut' :
          (/\ p.status = "pending"
           /\ ~\E q \in nodeOut : q.id = p.id /\ q.status = "pending")
          => \E s \in send : s.id = p.id /\ s.status = "pending"]_vars

\* C8: a send the node refuses returns an error, inserts no send, leaves
\* every balance as it was and publishes no event.
C8_RejectedSubmission ==
    [][\A t \in Tasks :
          (/\ task[t].pc = "send_route"
           /\ task[t].target # 0
           /\ ~HasId(Minted(task[t].op), task[t].target)
           /\ task'[t].pc = "idle"
           /\ last'.op # "restart")
          => /\ last'.result = "NodeError"
             /\ send' = send
             /\ receive' = receive
             /\ nodeOut' = nodeOut
             /\ \A u \in Users :
                   receive_sum(receive', u) - send_sum(send', u) = LedgerBalance(u)
             /\ last'.events = <<>>]_vars

C8_Witness ==
    /\ last.op \in SendKinds
    /\ last.result = "NodeError"
    /\ \E t \in Tasks : Idle(t)

\* C9: a method other than register, called by a user who is not registered,
\* fails with Unauthenticated, writes no row, gives the node nothing and
\* publishes no event.
C9_UnregisteredRejected ==
    [][(last'.op \in Methods \ {"register"} /\ ~user_exists(last'.user_pk))
          => /\ last'.result = "Unauthenticated"
             /\ last'.events = <<>>
             /\ UNCHANGED <<tables, nextId, nodeVars, task>>]_vars

C9_Witness ==
    /\ last.op = "recover"
    /\ last.result = "Unauthenticated"
    /\ ~user_exists(last.user_pk)
    /\ user # {}
    /\ recovery # {}

\* C10: the checks of register pass exactly when the invite exists, is not
\* past its expiry and has fewer users than its limit; otherwise register
\* fails with UnknownInvite, InviteExpired or InviteFull and the user table
\* is unchanged; when they pass, the user is registered.
C10_RegisterOutcome ==
    [][/\ \A t \in Tasks, u \in Users, i \in InviteIds :
            (last'.op = "register" /\ register_begin(t, u, i)) =>
              LET known == \E r \in invite : r.id = i
                  live == \E r \in invite : r.id = i /\ r.expires_at >= now
                  room == \E r \in invite :
                             /\ r.id = i
                             /\ Cardinality({x \in user : x.invite_id = i}) < r.user_limit
              IN /\ (last'.result = "running") <=> (known /\ live /\ room)
                 /\ ~known => last'.result = "UnknownInvite"
                 /\ (known /\ ~live) => last'.result = "InviteExpired"
                 /\ (known /\ live /\ ~room) => last'.result = "InviteFull"
                 /\ last'.result # "running" => user' = user
       /\ \A t \in Tasks :
            (last'.op = "register" /\ register_insert(t)) =>
              /\ last'.result = "Ok"
              /\ \E x \in user' : x.user_pk = task[t].user_pk]_vars

C10_Witness ==
    /\ last.op = "register"
    /\ last.result = "InviteFull"
    /\ ~user_exists(last.user_pk)
    /\ \E r \in invite : Cardinality({x \in user : x.invite_id = r.id}) = r.user_limit

\* C11: a recover that succeeds writes exactly one internal transfer, of the
\* source's entire balance B, with fee 0 and description "Recovery"; after
\* it the source's balance is 0, the caller's balance is B higher, and the
\* response reports balance_msat = B.
C11_RecoverTransfersAll ==
    [][\A t \in Tasks :
          (recover_transfer(t) /\ last'.result = "Ok") =>
            LET source == task[t].peer
                B == user_balance(receive, send, source)
            IN /\ \E s \in send' :
                    /\ send' \ send = {s}
                    /\ s.user_pk = source
                    /\ s.amount_msat = B
                    /\ s.fee_msat = 0
                    /\ s.description = "Recovery"
                    /\ \E r \in receive' :
                          /\ receive' \ receive = {r}
                          /\ r.id = s.id
                          /\ r.user_pk = task[t].user_pk
                          /\ r.amount_msat = B
               /\ user_balance(receive', send', source) = 0
               /\ user_balance(receive', send', task[t].user_pk)
                     = user_balance(receive, send, task[t].user_pk) + B
               /\ last'.value = B]_vars

\* C12: a recovery code is used once: a recover writes a transfer for a
\* code only when no transfer was written for that code before.
C12_RecoverySingleUse ==
    [][\A t \in Tasks :
          recover_transfer(t) =>
            ~\E s \in send : s.description = "Recovery" /\ s.pr = task[t].code]_vars

\* C13: recover fails with UnknownRecovery when the code is unknown, with
\* RecoveryExpired when it is past its expiry, with SelfRecovery when its
\* source is the caller, and with EmptySourceBalance when the balance of its
\* source is zero, the checks made in this order; a recover that fails so
\* inserts no send and no receive and publishes no event.
C13_RecoverRejected ==
    [][\A t \in Tasks, u \in Users, c \in RecoveryIds :
          (last'.op = "recover" /\ recover_begin(t, u, c)) =>
            LET known == \E r \in recovery : r.id = c
                live == \E r \in recovery : r.id = c /\ r.expires_at >= now
                other == \E r \in recovery : r.id = c /\ r.user_pk # u
                empty == \E r \in recovery : r.id = c /\ LedgerBalance(r.user_pk) = 0
            IN /\ ~known => last'.result = "UnknownRecovery"
               /\ (known /\ ~live) => last'.result = "RecoveryExpired"
               /\ (known /\ live /\ ~other) => last'.result = "SelfRecovery"
               /\ (known /\ live /\ other /\ empty) => last'.result = "EmptySourceBalance"
               /\ last'.result \in {"UnknownRecovery", "RecoveryExpired", "SelfRecovery",
                                    "EmptySourceBalance"} =>
                     /\ send' = send
                     /\ receive' = receive
                     /\ last'.events = <<>>
                     /\ task'[t] = IdleTask]_vars

\* A recover of the code of a source that an earlier recover has emptied.
C13_Witness ==
    /\ last.op = "recover"
    /\ last.result = "EmptySourceBalance"
    /\ \E s \in send : s.description = "Recovery" /\ LedgerBalance(s.user_pk) = 0

\* C14: a send that has passed check_send and names an invoice or offer
\* this daemon minted for the sender ends with SelfPayment: no send and no
\* receive is inserted, nothing is given to the node, no event is published.
C14_SelfPaymentRejected ==
    [][\A t \in Tasks :
          (/\ task[t].pc = "send_route"
           /\ \E r \in Minted(task[t].op) :
                 r.id = task[t].target /\ r.user_pk = task[t].user_pk
           /\ task'[t] # task[t]) =>
             /\ last'.op = task[t].op
             /\ last'.user_pk = task[t].user_pk
             /\ last'.result = "SelfPayment"
             /\ last'.events = <<>>
             /\ send' = send
             /\ receive' = receive
             /\ nodeOut' = nodeOut
             /\ task'[t] = IdleTask]_vars

\* User a has tried to pay an invoice of its own.
C14_Witness ==
    /\ last.op = "bolt11_send"
    /\ last.result = "SelfPayment"
    /\ \E r \in invoice : r.user_pk = last.user_pk
    /\ LedgerBalance(last.user_pk) > 0

C16_ExternalFeeQuoted ==
    [][\A t \in Tasks :
          (send_record(t) /\ send' # send) =>
            \E s \in send' \ send :
               LET a == task[t].amount_msat
                   fee == (a * fee_ppm) \div 1000000 + base_fee_msat
               IN /\ send' \ send = {s}
                  /\ s.user_pk = task[t].user_pk
                  /\ s.status = "pending"
                  /\ s.amount_msat = a
                  /\ s.fee_msat = fee
                  /\ a = 100000 => s.fee_msat = 10500
                  /\ a = 50000 => s.fee_msat = 10250
                  /\ receive_sum(receive', s.user_pk) - send_sum(send', s.user_pk)
                        = LedgerBalance(s.user_pk) - a - fee]_vars

\* The external send of the end-to-end test: 100000 msat out of 500000
\* leave 389500 while the payment is pending.
C16_Witness ==
    /\ last.op \in SendKinds
    /\ last.result = "Ok"
    /\ \E s \in send :
          /\ s.status = "pending"
          /\ s.amount_msat = 100000
          /\ s.fee_msat = 10500
          /\ HasId(nodeOut, s.id)
          /\ LedgerBalance(s.user_pk) = 389500

\* C17: when the event loop handles PaymentSuccessful for a pending send,
\* the send becomes successful and its fee_msat becomes the fee the node
\* reports, 0 when it reports none, so that the sender's balance is the
\* balance before the send less the amount and the fee paid.
C17_PaidFeeStored ==
    [][\A s \in send :
          (/\ process_ldk_event
           /\ Head(ldkEvents).kind = "PaymentSuccessful"
           /\ Head(ldkEvents).payment_id = s.id
           /\ s.status = "pending") =>
             LET paid == IF Head(ldkEvents).fee_paid_msat = <<>> THEN 0
                         ELSE Head(ldkEvents).fee_paid_msat[1]
             IN /\ Row(send', s.id).status = "successful"
                /\ Row(send', s.id).fee_msat = paid
                /\ receive_sum(receive', s.user_pk) - send_sum(send', s.user_pk)
                      = LedgerBalance(s.user_pk) + s.fee_msat - paid]_vars

\* C18: when the event loop handles PaymentSuccessful for a pending send,
\* it publishes to the sender a Balance event with the balance recomputed
\* after the update, then Update with the id of the send, status successful
\* and the fee paid.
C18_SuccessEvents ==
    [][\A s \in send :
          (/\ process_ldk_event
           /\ Head(ldkEvents).kind = "PaymentSuccessful"
           /\ Head(ldkEvents).payment_id = s.id
           /\ s.status = "pending") =>
             LET paid == IF Head(ldkEvents).fee_paid_msat = <<>> THEN 0
                         ELSE Head(ldkEvents).fee_paid_msat[1]
                 events == last'.events
             IN /\ Len(events) = 2
                /\ events[1] = BalanceEvent(s.user_pk,
                                   receive_sum(receive', s.user_pk)
                                      - send_sum(send', s.user_pk))
                /\ events[1].amount_msat = LedgerBalance(s.user_pk) + s.fee_msat - paid
                /\ events[2].type = "Update"
                /\ events[2].user_pk = s.user_pk
                /\ events[2].id = s.id
                /\ events[2].status = "successful"
                /\ "fee_msat" \in DOMAIN events[2]
                /\ events[2].fee_msat = paid]_vars

\* C19: when the event loop handles PaymentFailed for a pending send, the
\* send becomes failed and the event loop publishes to the sender a Balance
\* event with the balance that no longer debits the amount and fee of the
\* send, then Update with the id of the send, status failed and fee_msat 0.
C19_FailureEvents ==
    [][\A s \in send :
          (/\ process_ldk_event
           /\ Head(ldkEvents).kind = "PaymentFailed"
           /\ Head(ldkEvents).payment_id = s.id
           /\ s.status = "pending") =>
             LET events == last'.events
             IN /\ Row(send', s.id).status = "failed"
                /\ Len(events) = 2
                /\ events[1] = BalanceEvent(s.user_pk,
                                   LedgerBalance(s.user_pk) + s.amount_msat + s.fee_msat)
                /\ events[2].type = "Update"
                /\ events[2].user_pk = s.user_pk
                /\ events[2].id = s.id
                /\ events[2].status = "failed"
                /\ "fee_msat" \in DOMAIN events[2]
                /\ events[2].fee_msat = 0]_vars

\* C20: a step that writes a send or a receive of user u publishes to u a
\* Balance event with u's balance as it is after the write and, next after
\* it, the Payment event of that record with is_live true.
C20_RecordAnnounced ==
    [][/\ \A s \in send' \ send :
            (~HasId(send, s.id)) =>
               \E i \in 1..(Len(last'.events) - 1) :
                  /\ last'.events[i] = BalanceEvent(s.user_pk,
                         receive_sum(receive', s.user_pk) - send_sum(send', s.user_pk))
                  /\ last'.events[i + 1] = SendPayment(s, TRUE)
       /\ \A r \in receive' \ receive :
            \E i \in 1..(Len(last'.events) - 1) :
               /\ last'.events[i] = BalanceEvent(r.user_pk,
                      receive_sum(receive', r.user_pk) - send_sum(send', r.user_pk))
               /\ last'.events[i + 1] = ReceivePayment(r, TRUE)]_vars

\* C27: register of a user_pk that is already registered, with an invite
\* that passes the checks of register (known, not past its expiry, below
\* its user limit), succeeds and changes nothing: the user table keeps its
\* one row for the user_pk, with the invite_id and created_at it had, and
\* the receives and sends are as before.
C27_RegisterIdempotent ==
    [][/\ \A t \in Tasks, u \in Users, i \in InviteIds :
            (/\ last'.op = "register"
             /\ register_begin(t, u, i)
             /\ \E x \in user : x.user_pk = u
             /\ \E r \in invite :
                   /\ r.id = i
                   /\ r.expires_at >= now
                   /\ Cardinality({x \in user : x.invite_id = i}) < r.user_limit) =>
               /\ last'.result = "running"
               /\ user' = user
       /\ \A t \in Tasks :
            (/\ last'.op = "register"
             /\ register_insert(t)
             /\ \E x \in user : x.user_pk = task[t].user_pk) =>
               /\ last'.result = "Ok"
               /\ user' = user
               /\ Cardinality({x \in user' : x.user_pk = task[t].user_pk}) = 1
               /\ receive' = receive
               /\ send' = send]_vars

\* A register has succeeded for a user whose row is older than the call.
C27_Witness ==
    /\ last.op = "register"
    /\ last.result = "Ok"
    /\ \E x \in user : x.user_pk = last.user_pk /\ x.created_at < now

\* C28: in bolt11_receive, bolt11_send and bolt12_send the bounds check
\* rejects an amount below min_amount_sats * 1000 = 1000 msat or above
\* max_amount_sats * 1000 = 100000000 msat and passes every amount between
\* them, the two endpoints included.
C28_AmountBounds ==
    [][/\ \A t \in Tasks, u \in Users, a \in BoundAmounts :
            (/\ last'.op = "bolt11_receive"
             /\ bolt11_receive(t, u, a)
             /\ count_pending_invoices(u) < max_pending_payments_per_user) =>
               /\ a < 1000 <=> last'.result = "AmountBelowMin"
               /\ a > 100000000 <=> last'.result = "AmountAboveMax"
               /\ (min_amount_sats * 1000 <= a /\ a <= max_amount_sats * 1000)
                     <=> last'.result = "Ok"
       /\ \A t \in Tasks, k \in SendKinds, u \in Users, a \in BoundAmounts :
            (/\ last'.op = k
             /\ \E g \in Targets(k) : send_begin(t, k, u, g, a)
             /\ count_pending_sends(u) < max_pending_payments_per_user) =>
               /\ a < 1000 <=> last'.result = "AmountBelowMin"
               /\ a > 100000000 <=> last'.result = "AmountAboveMax"
               /\ (min_amount_sats * 1000 <= a /\ a <= max_amount_sats * 1000)
                     <=> last'.result \in {"running", "InsufficientBalance", "panic"}]_vars

\* Both endpoints have been accepted: an invoice of the maximum is stored
\* and a send of the minimum has passed check_send.
C28_Witness ==
    /\ \E r \in invoice : r.amount_msat = max_amount_sats * 1000
    /\ \E t \in Tasks : task[t].pc = "send_route" /\ task[t].amount_msat = min_amount_sats * 1000

C30_InternalOrSubmitted ==
    [][\A t \in Tasks :
         /\ ( /\ task[t].pc = "send_route"
              /\ task'[t] # task[t]
              /\ last'.op = task[t].op
              /\ task[t].target # 0
              /\ HasId(Minted(task[t].op), task[t].target)
              /\ Row(Minted(task[t].op), task[t].target).user_pk # task[t].user_pk )
            => /\ nodeOut' = nodeOut
               /\ task'[t].pc = "idle"
               /\ send' # send
                  => \E s \in send' \ send : /\ s.user_pk = task[t].user_pk
                                              /\ s.status = "successful"
         /\ ( /\ task[t].pc = "send_route"
              /\ task'[t] # task[t]
              /\ last'.op = task[t].op
              /\ task[t].target # 0
              /\ ~HasId(Minted(task[t].op), task[t].target) )
            => /\ send' = send /\ receive' = receive
               /\ \/ /\ task'[t].pc = "send_record"
                     /\ [id |-> task'[t].payment_id, status |-> "pending"] \in nodeOut'
                  \/ /\ task'[t].pc = "idle"
                     /\ last'.result = "NodeError"
                     /\ nodeOut' = nodeOut
         /\ ( /\ task[t].pc = "send_record"
              /\ task'[t] # task[t]
              /\ last'.op = task[t].op )
            => \E s \in send' : /\ s.id = task[t].payment_id
                                /\ s.user_pk = task[t].user_pk
                                /\ s.status = "pending"]_vars


\* C21: what a session has written to its client begins with the Balance
\* event of the balance events() read from the ledger, goes on with the
\* stored payments of the user as Payment events with is_live = FALSE in
\* non-decreasing order of created_at, and holds events of the
\* subscription only after all of these; the balance is the one the ledger
\* gives when events() reads it, and the payments are the receives and
\* sends the ledger holds for the user when events() loads them.
C21_ReplayFirst ==
    [][\A c \in Conns :
         LET s == session'[c]
             n == Len(s.replay)
             live == SelectSeq(s.published, LAMBDA e : e.user_pk = s.user_pk)
         IN /\ ( session[c].pc = "subscribed" /\ s.pc = "balance_read" )
               => s.balance_msat = LedgerBalance(s.user_pk)
            /\ ( session[c].pc = "balance_read" /\ s.pc = "driving" )
               => {s.replay[i] : i \in 2..n}
                  = {ReceivePayment(r, FALSE) : r \in {x \in receive : x.user_pk = s.user_pk}}
                    \cup {SendPayment(r, FALSE) : r \in {x \in send : x.user_pk = s.user_pk}}
            /\ s.pc \in {"driving", "handling", "waiting"}
               => /\ n >= 1
                  /\ s.replay[1] = BalanceEvent(s.user_pk, s.balance_msat)
                  /\ \A i \in 2..n : /\ s.replay[i].type = "Payment"
                                     /\ s.replay[i].is_live = FALSE
                  /\ \A i, j \in 2..n :
                       i < j => s.replay[i].created_at <= s.replay[j].created_at
            /\ \A i \in 1..Len(s.out) :
                 IF i <= n THEN s.out[i] = s.replay[i]
                 ELSE /\ i - n <= Len(live)
                      /\ s.out[i] = live[i - n]]_vars

\* A client has read the whole prefix and an event after it; in the prefix
\* a send stands before a receive, which the two loads do not give.
C21_Witness ==
    \E c \in Conns :
        LET s == session[c]
        IN /\ Len(s.out) > Len(s.replay)
           /\ \E i, j \in 2..Len(s.replay) :
                /\ i < j
                /\ s.replay[i].payment_type = "send"
                /\ s.replay[j].payment_type = "receive"
                /\ s.replay[i].created_at < s.replay[j].created_at


\* C22: the prefix events() builds for a session holds at most replay_limit
\* Payment events, and they are the most recent stored payments of the
\* user: no stored payment that is left out is younger than one that is
\* replayed.
C22_ReplayBounded ==
    [][\A c \in Conns :
         LET s == session'[c]
             replayed == {s.replay[i] : i \in 2..Len(s.replay)}
         IN ( session[c].pc = "balance_read" /\ s.pc = "driving" )
            => /\ Cardinality(replayed) <= replay_limit
               /\ \A r \in receive : \A p \in replayed :
                    ( r.user_pk = s.user_pk /\ ReceivePayment(r, FALSE) \notin replayed )
                    => r.created_at <= p.created_at
               /\ \A r \in send : \A p \in replayed :
                    ( r.user_pk = s.user_pk /\ SendPayment(r, FALSE) \notin replayed )
                    => r.created_at <= p.created_at]_vars


\* C23: every event a session has written to its client is an event of the
\* user of the session, and the events it has written after the replayed
\* prefix are the first events the bus has published for that user since
\* the session subscribed, each once and in the order of publication.
C23_OwnEventsOnce ==
    \A c \in Conns :
        LET s == session[c]
            n == Len(s.replay)
            own == SelectSeq(s.published, LAMBDA e : e.user_pk = s.user_pk)
        IN /\ \A i \in 1..Len(s.out) : s.out[i].user_pk = s.user_pk
           /\ Len(s.out) > n
              => /\ Len(s.out) - n <= Len(own)
                 /\ SubSeq(s.out, n + 1, Len(s.out)) = SubSeq(own, 1, Len(s.out) - n)

\* A session has taken all the bus has sent it: an event of another user,
\* which it has not written, and an event of its own user, which it has.
C23_Witness ==
    \E c \in Conns :
        LET s == session[c]
        IN /\ s.pc = "driving"
           /\ s.queue = <<>>
           /\ ~s.lagged
           /\ Len(s.out) > Len(s.replay)
           /\ \E i \in 1..Len(s.published) : s.published[i].user_pk # s.user_pk


\* C24: when the event stream of a session reports that its receiver has
\* lagged, the session closes the connection and releases the slot of its
\* user: the step that meets the lag leaves the session closed and the
\* counter of the user one lower.
C24_LagResets ==
    [][\A c \in Conns :
         ( /\ session[c].pc = "driving"
           /\ session[c].prefix = <<>>
           /\ session[c].lagged
           /\ session'[c] # session[c]
           /\ UNCHANGED daemonVars )
         => /\ session'[c].pc = "closed"
            /\ semaphore'[session[c].user_pk] = semaphore[session[c].user_pk] - 1]_vars


\* C25: a user never has more than max_connections admitted connections;
\* the step that admits a connection raises the counter of the user by one,
\* an attempt made while the user has max_connections admitted connections
\* is refused, and the step in which an admitted connection ends lowers the
\* counter by one.
C25_ConnectionCap ==
    [][\A c \in Conns :
         LET u == session'[c].user_pk
             v == session[c].user_pk
             open == {"subscribed", "balance_read", "driving", "handling", "waiting"}
             admitted(x) == {d \in Conns : session[d].pc \in open /\ session[d].user_pk = x}
         IN /\ \A x \in Users :
                 Cardinality({d \in Conns : session'[d].pc \in open
                                            /\ session'[d].user_pk = x}) <= max_connections
            /\ ( session[c].pc \notin open /\ session'[c].pc \in open )
               => semaphore'[u] = semaphore[u] + 1
            /\ ( /\ session[c].pc \notin open
                 /\ session'[c] # session[c]
                 /\ Cardinality(admitted(u)) = max_connections )
               => session'[c].pc = "rejected"
            /\ ( session[c].pc \in open /\ session'[c].pc \notin open )
               => semaphore'[v] = semaphore[v] - 1]_vars

\* C26: once the token is cancelled, a session that is handling a request
\* leaves the request only by writing its response, after which the select
\* of drive_connection runs again and sees the token.
C26_RequestsComplete ==
    [][\A c \in Conns :
         ( /\ ct # "running"
           /\ session[c].pc = "handling"
           /\ session'[c].pc # "handling" )
         => session'[c].pc = "driving"]_vars


\* C31: while a recover has read the balance of its source and has not yet
\* written the transfer, no send of the source is admitted, and the
\* transfer the recover writes leaves the balance of the source at zero or
\* above.
C31_RecoverHoldsSendLock ==
    [][\A t \in Tasks :
         task[t].pc = "recover_transfer"
         => /\ \A s \in Tasks :
                 ( task[s].pc # "send_route" /\ task'[s].pc = "send_route" )
                 => task'[s].user_pk # task[t].peer
            /\ task'[t].pc # "recover_transfer"
               => receive_sum(receive', task[t].peer) >= send_sum(send', task[t].peer)]_vars


C33_PendingInvoicesCapped ==
    [][( /\ last'.op = "bolt11_receive"
         /\ last'.result # "Unauthenticated"
         /\ ( last' # last \/ invoice' # invoice ) )
       => LET pending == {r \in invoice : /\ r.user_pk = last'.user_pk
                                          /\ \A x \in receive : x.id # r.id
                                          /\ now < r.expires_at}
          IN /\ last'.result = "TooManyPendingInvoices"
                <=> Cardinality(pending) >= max_pending_payments_per_user
             /\ last'.result = "TooManyPendingInvoices"
                => invoice' = invoice]_vars

\* A call has been accepted although an unpaid invoice of the caller is at
\* exactly its expires_at.
C33_Witness ==
    /\ last.op = "bolt11_receive"
    /\ last.result = "Ok"
    /\ \E r \in invoice : /\ r.user_pk = last.user_pk
                          /\ r.expires_at = now
                          /\ ~HasId(receive, r.id)


\* C34: when the event loop takes a PaymentReceived event for a payment of
\* the node that is neither of kind Bolt11 nor of kind Bolt12Offer, the
\* step leaves the ledger as it was and the loop goes on to mark the event
\* handled and take the next one.
C34_UnexpectedKindDropped ==
    [][( /\ reactor = "next"
         /\ reactor' # "next"
         /\ Head(ldkEvents).kind = "PaymentReceived"
         /\ Row(nodeIn, Head(ldkEvents).payment_id).kind \notin {"Bolt11", "Bolt12Offer"} )
       => /\ receive' = receive
          /\ send' = send
          /\ last'.events = <<>>
          /\ reactor' = "processed"]_vars


\* C35: a session that has built its stream and has not lagged holds, in
\* the replayed prefix or among the events the bus has sent it since it
\* subscribed, every change of the ledger of its user: each receive and
\* each send as a Payment event, the status of each send in that event or
\* in an Update after it, and the balance of the ledger in the last
\* Balance event.
C35_NoChangeMissed ==
    \A c \in Conns :
        LET s == session[c]
            u == s.user_pk
            n == Len(s.replay)
            seen == s.replay
                    \o ( IF Len(s.out) > n THEN SubSeq(s.out, n + 1, Len(s.out)) ELSE <<>> )
                    \o SelectSeq(s.queue, LAMBDA e : e.user_pk = u)
            balances == SelectSeq(seen, LAMBDA e : e.type = "Balance")
        IN ( s.pc \in {"driving", "handling"} /\ ~s.lagged )
           => /\ \A r \in receive :
                   r.user_pk = u
                   => \E i \in 1..Len(seen) : /\ seen[i].type = "Payment"
                                              /\ seen[i].payment_type = "receive"
                                              /\ seen[i].id = r.id
              /\ \A r \in send :
                   r.user_pk = u
                   => \E i \in 1..Len(seen) :
                        /\ seen[i].type = "Payment"
                        /\ seen[i].payment_type = "send"
                        /\ seen[i].id = r.id
                        /\ \/ seen[i].status = r.status
                           \/ \E j \in i + 1..Len(seen) : /\ seen[j].type = "Update"
                                                          /\ seen[j].id = r.id
                                                          /\ seen[j].status = r.status
              /\ balances # <<>>
              /\ balances[Len(balances)].amount_msat = LedgerBalance(u)


\* C36: once the node has settled a payment it sent for bolt11_send or
\* bolt12_send and the event loop has handled the event of the settlement,
\* a send stored under the id of the payment has the status the node
\* reported, also when the event was handled before the send was stored:
\* no such send is left pending.
C36_TerminalStatusReaches ==
    \A p \in nodeOut :
        ( /\ p.status \in {"successful", "failed"}
          /\ reactor = "next"
          /\ \A i \in 1..Len(ldkEvents) : ldkEvents[i].payment_id # p.id )
        => \A s \in send : s.id = p.id => s.status = p.status


\* C37: after the step that pays an invoice, be it the internal transfer of
\* a bolt11_send of another user or the receive the event loop stores for a
\* payment from outside, the invoice is none of the pending invoices
\* count_pending_invoices counts for its owner.
C37_PaidInvoiceNotPending ==
    [][LET pending_after(id) == /\ Row(invoice, id).expires_at > now'
                                /\ \A x \in receive' : x.id # id
       IN /\ \A t \in Tasks :
               ( /\ task[t].pc = "send_route"
                 /\ task[t].op = "bolt11_send"
                 /\ HasId(invoice, task[t].target)
                 /\ task'[t].pc = "idle"
                 /\ last'.op = "bolt11_send"
                 /\ last'.result = "Ok" )
               => ~pending_after(task[t].target)
          /\ ( /\ reactor = "next"
               /\ reactor' = "processed"
               /\ Head(ldkEvents).kind = "PaymentReceived"
               /\ Row(nodeIn, Head(ldkEvents).payment_id).kind = "Bolt11" )
             => ~pending_after(Row(nodeIn, Head(ldkEvents).payment_id).ref)]_vars


\* C40: a bolt11_send of another user to an invoice of this daemon that a
\* receive has already settled, or whose expiry the clock has reached,
\* writes no internal transfer.
C40_InvoiceSingleUse ==
    [][\A t \in Tasks :
         ( /\ task[t].pc = "send_route"
           /\ task[t].op = "bolt11_send"
           /\ HasId(invoice, task[t].target)
           /\ Row(invoice, task[t].target).user_pk # task[t].user_pk
           /\ \/ HasId(receive, task[t].target)
              \/ Row(invoice, task[t].target).expires_at <= now
           /\ task'[t].pc = "idle"
           /\ last'.op = "bolt11_send" )
         => /\ receive' = receive
            /\ send' = send]_vars


\* C38: the step that writes an internal transfer adds one send row and one
\* receive row and changes no other row; the two rows carry the same id
\* and the same amount, the balance of the sender falls by the amount and
\* the fee of the send row, the balance of the receiver rises by the
\* amount, and the balance of every other user stays as it was.
C38_TransferMovesTwoBalances ==
    [][\A t \in Tasks :
         ( /\ task[t].pc \in {"send_route", "recover_transfer"}
           /\ task'[t].pc = "idle"
           /\ receive' # receive )
         => \E s \in send' \ send, r \in receive' \ receive :
              /\ send' = send \cup {s}
              /\ receive' = receive \cup {r}
              /\ s.id = r.id
              /\ s.user_pk # r.user_pk
              /\ s.amount_msat = task[t].amount_msat
              /\ receive_sum(receive', s.user_pk) - send_sum(send', s.user_pk)
                 = LedgerBalance(s.user_pk) - (task[t].amount_msat + s.fee_msat)
              /\ receive_sum(receive', r.user_pk) - send_sum(send', r.user_pk)
                 = LedgerBalance(r.user_pk) + task[t].amount_msat
              /\ \A u \in Users \ {s.user_pk, r.user_pk} :
                   receive_sum(receive', u) - send_sum(send', u) = LedgerBalance(u)]_vars

\* a has paid b 1000 msat internally: a holds 18000 and b 1000.
C38_Witness ==
    /\ last.op \in SendKinds
    /\ last.result = "Ok"
    /\ \E s \in send, r \in receive :
         /\ s.id = r.id
         /\ s.user_pk = "a" /\ r.user_pk = "b"
         /\ s.fee_msat = internal_fee_msat
         /\ LedgerBalance("a") = 20000 - s.amount_msat - s.fee_msat
         /\ LedgerBalance("b") = r.amount_msat


\* C39: the users registered with an invite are never more than the
\* user_limit of the invite.
C39_InviteLimitKept ==
    \A i \in invite : Cardinality({r \in user : r.invite_id = i.id}) <= i.user_limit
====
